---- MODULE Spec2Model ----
(***************************************************************************)
(* Release & deployment state manager of release-o-matic (src/src/index.ts,*)
(* the handlers and helpers of lines 1..1376).                             *)
(*                                                                         *)
(* Strings are sequences of tokens.  A token is "-", one decimal digit, or *)
(* a run of other characters ("master", "index_", ".html", ...), so that   *)
(* split('-'), parseInt, the BuildKey pattern and string concatenation are *)
(* computed on the text as the code computes them.  The empty string is    *)
(* <<>>; it is also what an omitted route parameter and `undefined` are    *)
(* modelled as (all three are falsy where the code tests them).            *)
(***************************************************************************)
EXTENDS Integers, Sequences, FiniteSets, TLC

VARIABLES
    envs,       \* <game>/<env>/ : the build directories of each environment
    prod,       \* <game>/prod/<name>/ : platform release directories and *_temp
    clock,      \* Date.now(), in ticks
    last,       \* the last request and the response it got
    published,  \* history: keys whose Publish to the platform has succeeded
    finalized,  \* history: <<env, version>> whose postDeploy has succeeded
    handlers,   \* the publish handlers followed call by call: position and locals
    running     \* the handler that holds the event loop, 0 when none does

vars == <<envs, prod, clock, last, published, finalized, handlers, running>>

----------------------------------------------------------------------------
(* Bounds                                                                  *)

MaxFresh == 3            \* builds of master next to a platform that starts empty
HistoryLen == 4          \* releases of the platform that starts with a history
MaxLatest == 2           \* versions of master and main where the default key is chosen
MaxPublished == 7        \* builds published in a row before the rollbacks start
MaxNewVersions == 2      \* versions deployed below and above the ones retention keeps
MaxHandlers == 2         \* publish requests followed call by call
MaxKeyLen == 4           \* tokens of a build key given to the codec
MaxClock == 2            \* Date.now() ranges over 0..MaxClock ticks
TicksPerSecond == 2      \* clock ticks in one second of releasedAt

----------------------------------------------------------------------------
(* Text                                                                    *)

Digits == <<"0", "1", "2", "3", "4", "5", "6", "7", "8", "9">>

IsDigit(t) == \E i \in 1..10 : Digits[i] = t

DigitVal(t) == (CHOOSE i \in 1..10 : Digits[i] = t) - 1

\* Tokens made of characters outside [a-zA-Z0-9_-]
NonKeyTokens == {".html", ".json", ".js", "./", "main.js", "build_info.json",
                 "index.html", "releases.json"}

\* one token of the character class [a-zA-Z0-9_-]
IsKeyChar(t) == t \notin NonKeyTokens

NaN == -1

\* Number.prototype.toString for a non-negative integer, and for NaN
RECURSIVE ToStr(_)
ToStr(n) == IF n = NaN THEN <<"NaN">>
            ELSE IF n < 10 THEN <<Digits[n + 1]>>
            ELSE ToStr(n \div 10) \o <<Digits[(n % 10) + 1]>>

\* parseInt: the value of the longest prefix of digits, NaN when there is none
RECURSIVE ParseDigits(_, _)
ParseDigits(s, acc) ==
    IF s = <<>> \/ ~IsDigit(Head(s)) THEN acc
    ELSE ParseDigits(Tail(s), acc * 10 + DigitVal(Head(s)))

parseInt(s) == IF s = <<>> \/ ~IsDigit(Head(s)) THEN NaN ELSE ParseDigits(s, 0)

\* String.prototype.split('-')
RECURSIVE Split(_)
Split(s) ==
    IF \A i \in 1..Len(s) : s[i] # "-" THEN <<s>>
    ELSE LET i == CHOOSE i \in 1..Len(s) :
                      s[i] = "-" /\ \A j \in 1..(i - 1) : s[j] # "-"
         IN <<SubSeq(s, 1, i - 1)>> \o Split(SubSeq(s, i + 1, Len(s)))

----------------------------------------------------------------------------
(* BuildKey codec                                                          *)

\* /^[a-zA-Z0-9_-]+-\d+$/
isBuildKey(key) ==
    \E i \in 2..(Len(key) - 1) :
        /\ key[i] = "-"
        /\ \A j \in 1..(i - 1) : IsKeyChar(key[j])
        /\ \A j \in (i + 1)..Len(key) : IsDigit(key[j])

createBuildKey(env, version) == env \o <<"-">> \o version

parseBuildKey(key) ==
    LET parts == Split(key)
    IN [env |-> parts[1],
        version |-> IF Len(parts) >= 2 THEN parseInt(parts[2]) ELSE NaN]

----------------------------------------------------------------------------
(* Files and directories                                                   *)
(* A directory is [exists, files]; files maps a relative path to a content *)
(* record.  releases.json and the index.html symlink are entries of the    *)
(* platform directory like every other file.                               *)

NoFiles == [f \in {} |-> [t |-> "none"]]

NoDir == [exists |-> FALSE, files |-> NoFiles]

EmptyDir == [exists |-> TRUE, files |-> NoFiles]

Data(from) == [t |-> "data", from |-> from]

BuildInfoFile(info) == [t |-> "build_info", info |-> info]

ManifestFile(list) == [t |-> "manifest", list |-> list]

LedgerFile(releases) == [t |-> "ledger", releases |-> releases]

Symlink(target) == [t |-> "symlink", target |-> target]

BUILD_INFO == <<"build_info.json">>

INDEX_HTML == <<"index.html">>

RELEASES_JSON == <<"releases.json">>

IndexName(key) == <<"index_">> \o key \o <<".html">>

FilesName(key) == <<"files_">> \o key \o <<".json">>

\* fse.existsSync(path.join(dir, name))
HasFile(dir, name) == dir.exists /\ name \in DOMAIN dir.files

\* files of a directory with some removed / one written
RemoveFiles(files, names) == [f \in (DOMAIN files) \ names |-> files[f]]

WriteFile(files, name, content) ==
    [f \in (DOMAIN files) \cup {name} |-> IF f = name THEN content ELSE files[f]]

\* fse.renameSync inside one directory
RenameFile(files, old, new) ==
    [f \in ((DOMAIN files) \ {old}) \cup {new} |->
        IF f = new THEN files[old] ELSE files[f]]

\* mutant: the destination is replaced by the source instead of merged
copyReplacing(src, dest) == [exists |-> TRUE, files |-> src.files]

\* fse.copySync(src, dest): a merge, src's files overwrite dest's
copySync(src, dest) ==
    [exists |-> TRUE,
     files |-> [f \in (DOMAIN dest.files) \cup (DOMAIN src.files) |->
                  IF f \in DOMAIN src.files THEN src.files[f] ELSE dest.files[f]]]

\* fse.ensureDirSync
ensureDirSync(dir) == IF dir.exists THEN dir ELSE EmptyDir

\* a set of paths as a list, in a fixed order (the order globby reports)
RECURSIVE SetToSeq(_)
SetToSeq(S) == IF S = {} THEN <<>>
               ELSE LET x == CHOOSE x \in S : TRUE IN <<x>> \o SetToSeq(S \ {x})

\* globby('**/*'): the files of a directory; dot files are not matched
globby(dir) == {f \in DOMAIN dir.files : f[1] # "."}

SeqToSet(s) == {s[i] : i \in 1..Len(s)}

----------------------------------------------------------------------------
(* Release clock                                                           *)

\* toReadableDateString(ms): precision 'seconds' drops the sub-second part;
\* the readable string is represented by its count of seconds
toReadableDateString(t) == t \div TicksPerSecond

\* fromReadableDateString: the timestamp of the start of that second
fromReadableDateString(r) == r * TicksPerSecond

----------------------------------------------------------------------------
(* Release ledger                                                          *)

\* the ledger the publish handler starts from when releases.json is absent
NewReleases == [current |-> <<>>, builds |-> <<>>]

HasLedger(dir) == HasFile(dir, RELEASES_JSON)

\* fse.readJsonSync(releasesJsonPath), for a directory that has the file
ReadLedger(dir) == dir.files[RELEASES_JSON].releases

Keys(builds) == {builds[i].key : i \in 1..Len(builds)}

\* releases.builds.find((item) => item.key === key): index of the first match, 0 if none
FindIndex(builds, key) ==
    IF key \in Keys(builds)
    THEN CHOOSE i \in 1..Len(builds) :
            builds[i].key = key /\ \A j \in 1..(i - 1) : builds[j].key # key
    ELSE 0

\* obj.name: a property the object lacks reads as undefined (<<>>)
Field(obj, name) == IF name \in DOMAIN obj THEN obj[name] ELSE <<>>

createNewRelease(buildKey, buildInfo, now) ==
    [key |-> buildKey,
     index |-> IndexName(buildKey),
     files |-> FilesName(buildKey),
     releasedAt |-> toReadableDateString(now),
     builtAt |-> Field(buildInfo, "builtAtReadable"),
     gitBranch |-> Field(buildInfo, "gitBranch"),
     gitCommit |-> Field(buildInfo, "gitCommitHash")]

\* Array.prototype.sort with (a, b) => from(b.releasedAt) - from(a.releasedAt):
\* newest first, stable (equal dates keep their order)
InsertByDate(sorted, r) ==
    LET n == Cardinality({i \in 1..Len(sorted) :
                 fromReadableDateString(sorted[i].releasedAt)
                     >= fromReadableDateString(r.releasedAt)})
        \* sorted is descending, so the elements not newer than r form a prefix
    IN SubSeq(sorted, 1, n) \o <<r>> \o SubSeq(sorted, n + 1, Len(sorted))

RECURSIVE SortFrom(_, _)
SortFrom(sorted, rest) ==
    IF rest = <<>> THEN sorted
    ELSE SortFrom(InsertByDate(sorted, Head(rest)), Tail(rest))

sortByReleasedAt(builds) == SortFrom(<<>>, builds)

----------------------------------------------------------------------------
(* Build store: what the release handlers read of it.  es is the tree of   *)
(* environment directories, pr the tree under prod/.                       *)

\* <env>/ is [exists, dirs, latest, mtime]: the build directories by name, the
\* target of the symlink `latest` (<<>> when there is none) and the
\* modification time of each build directory
NoEnv == [exists |-> FALSE, dirs |-> [d \in {} |-> NoFiles], latest |-> <<>>,
          mtime |-> [d \in {} |-> 0]]

\* <game>/<env>/
EnvDir(es, env) == IF env \in DOMAIN es THEN es[env] ELSE NoEnv

\* <game>/<env>/<name>/
BuildDir(es, env, name) ==
    IF EnvDir(es, env).exists /\ name \in DOMAIN EnvDir(es, env).dirs
    THEN [exists |-> TRUE, files |-> EnvDir(es, env).dirs[name]]
    ELSE NoDir

\* getLatestBuildKey(gameDir, env): readdirSync throws when <env>/ is absent
getLatestBuildKey(es, env) ==
    IF ~EnvDir(es, env).exists THEN [throws |-> TRUE, key |-> <<>>]
    ELSE LET builds == {d \in DOMAIN EnvDir(es, env).dirs : parseInt(d) # NaN}
         IN IF builds = {} THEN [throws |-> FALSE, key |-> <<>>]
            ELSE LET first == CHOOSE d \in builds :
                                 \A o \in builds : parseInt(o) <= parseInt(d)
                 IN [throws |-> FALSE, key |-> createBuildKey(env, first)]

\* c.req.param('buildKey') || getLatestBuildKey('master') || getLatestBuildKey('main')
publishBuildKey(es, param) ==
    IF param # <<>> THEN [throws |-> FALSE, key |-> param]
    ELSE IF getLatestBuildKey(es, <<"master">>).throws
              \/ getLatestBuildKey(es, <<"master">>).key # <<>>
         THEN getLatestBuildKey(es, <<"master">>)
         ELSE getLatestBuildKey(es, <<"main">>)

----------------------------------------------------------------------------
(* Platform release directory                                              *)

buildsNumToKeep == 5

TempName(platform) == platform \o <<"_temp">>

SymlinkTarget(buildKey) == <<"./">> \o IndexName(buildKey)

\* mutant: an index.html that exists is left as it is
createIndexHtmlSymlink(dir, buildKey) ==
    IF HasFile(dir, INDEX_HTML) THEN dir
    ELSE [dir EXCEPT !.files =
             WriteFile(dir.files, INDEX_HTML, Symlink(SymlinkTarget(buildKey)))]

\* updateIndexHtmlSymlink(dir, buildKey): rmSync(force) then symlinkSync
updateIndexHtmlSymlink(dir, buildKey) ==
    [dir EXCEPT !.files =
        WriteFile(RemoveFiles(dir.files, {INDEX_HTML}), INDEX_HTML,
                  Symlink(SymlinkTarget(buildKey)))]

\* fse.outputJsonSync(releasesJsonPath, releases)
WriteLedger(dir, releases) ==
    [exists |-> TRUE, files |-> WriteFile(dir.files, RELEASES_JSON, LedgerFile(releases))]

Min(a, b) == IF a <= b THEN a ELSE b

\* mutant: builds.slice(-keep), the last entries instead of the first
oldestBuilds(builds, keep) ==
    SubSeq(builds, Len(builds) - Min(keep, Len(builds)) + 1, Len(builds))

\* mutant: builds.slice(0), every entry is kept
everyBuild(builds, keep) == builds

\* builds.slice(0, options.buildsNumToKeep)
newestBuilds(builds, keep) == SubSeq(builds, 1, Min(keep, Len(builds)))

\* removeOldReleases(releasesJsonPath, {buildsNumToKeep}); reading the manifest
\* of a kept release throws when that file is missing
removeOldReleases(dir, keep) ==
    LET releases == ReadLedger(dir)
        builds == sortByReleasedAt(releases.builds)
        buildsToKeep == newestBuilds(builds, keep)
        \* without(builds, ...buildsToKeep): the entries that are not kept, in order
        buildsToRemove == SelectSeq(builds, LAMBDA b : b \notin SeqToSet(buildsToKeep))
        unreadable == \E i \in 1..Len(buildsToKeep) : ~HasFile(dir, buildsToKeep[i].files)
        filesAll == globby(dir)
        filesToKeep ==
            UNION {SeqToSet(dir.files[buildsToKeep[i].files].list) :
                      i \in 1..Len(buildsToKeep)}
                \cup {INDEX_HTML, RELEASES_JSON}
        filesToRemove == filesAll \ filesToKeep
    IN IF buildsToRemove = <<>>
       THEN [dir |-> dir, throws |-> FALSE, removedBuilds |-> <<>>]
       ELSE IF unreadable
       THEN [dir |-> dir, throws |-> TRUE, removedBuilds |-> <<>>]
       ELSE [dir |-> WriteLedger([dir EXCEPT !.files = RemoveFiles(dir.files, filesToRemove)],
                                 [releases EXCEPT !.builds = buildsToKeep]),
             throws |-> FALSE,
             removedBuilds |-> buildsToRemove]

----------------------------------------------------------------------------
(* Publish                                                                 *)

\* what a handler leaves: the tree under prod/, the response (status, message,
\* key of the release in the body) and the fs-extra calls that wrote
Response(pr, status, msg, rel, writes) ==
    [prod |-> pr, status |-> status, msg |-> msg, rel |-> rel, writes |-> writes]

\* mutant: the directories under prod/ are created before the request is validated
rejectAfterEnsureDir(pr, status, msg) ==
    Response([d \in DOMAIN pr |-> ensureDirSync(pr[d])], status, msg, <<>>,
             {"ensureDirSync"})

\* return c.json({ message }, status): the request is refused, nothing was written
reject(pr, status, msg) == Response(pr, status, msg, <<>>, {})

\* lines 1154-1170: the staged copy in prod/<platform>_temp
stageBuild(tempDir, srcDir, buildKey) ==
    LET copied == copySync(srcDir, ensureDirSync(tempDir))
        noInfo == RemoveFiles(copied.files, {BUILD_INFO})
        renamed == [exists |-> TRUE,
                    files |-> RenameFile(noInfo, INDEX_HTML, IndexName(buildKey))]
        files == <<FilesName(buildKey)>> \o SetToSeq(globby(renamed))
    IN [renamed EXCEPT !.files = WriteFile(renamed.files, FilesName(buildKey), ManifestFile(files))]

\* mutant: builds.push(newRelease) instead of unshift
recordPublishAppended(dir, releases, newRelease) ==
    WriteLedger(dir, [current |-> newRelease.key,
                      builds |-> releases.builds \o <<newRelease>>])

\* lines 1178-1182: releases.current = key, builds.unshift(newRelease), write
recordPublish(dir, releases, newRelease) ==
    WriteLedger(dir, [current |-> newRelease.key,
                      builds |-> <<newRelease>> \o releases.builds])

\* lines 1172-1192: commit the staged copy, record the release, prune, repoint
commitRelease(pr, platform, staged, releases, buildKey, buildInfo, now) ==
    LET copied == copySync(staged, pr[platform])
        newRelease == createNewRelease(buildKey, buildInfo, now)
        recorded == recordPublish(copied, releases, newRelease)
        pruned == removeOldReleases(recorded, buildsNumToKeep)
        pr1 == [pr EXCEPT ![TempName(platform)] = NoDir, ![platform] = pruned.dir]
    IN IF pruned.throws
       THEN Response(pr1, 500, "exception", <<>>, {"copySync", "rmSync", "outputJsonSync"})
       ELSE Response([pr1 EXCEPT ![platform] = updateIndexHtmlSymlink(pruned.dir, newRelease.key)],
                     200, "ok", newRelease.key,
                     {"copySync", "rmSync", "outputJsonSync", "symlinkSync"})

\* mutant: only the current release counts as released
currentlyReleased(releases, buildKey) == releases.current = buildKey

\* releases.builds.find((item) => item.key === buildKey)
alreadyReleased(releases, buildKey) == buildKey \in Keys(releases.builds)

\* app.get('/publish/:game/:platform/:buildKey?')
publishHandler(es, pr, platform, param, now) ==
    LET chosen == publishBuildKey(es, param)
        buildKey == chosen.key
        releases == IF HasLedger(pr[platform]) THEN ReadLedger(pr[platform])
                    ELSE NewReleases
        parsed == parseBuildKey(buildKey)
        srcDir == BuildDir(es, parsed.env, ToStr(parsed.version))
        staged == stageBuild(pr[TempName(platform)], srcDir, buildKey)
    IN IF chosen.throws THEN Response(pr, 500, "exception", <<>>, {})
       ELSE IF buildKey = <<>> THEN reject(pr, 400, "build doesn't exist")
       ELSE IF ~isBuildKey(buildKey) THEN reject(pr, 400, "invalid build key")
       ELSE IF alreadyReleased(releases, buildKey)
       THEN reject(pr, 400, "was already released")
       ELSE IF ~srcDir.exists THEN reject(pr, 404, "build doesn't exist")
       ELSE IF ~HasFile(srcDir, BUILD_INFO)
       THEN reject(pr, 404, "build doesn't have build_info.json")
       ELSE IF ~HasFile(srcDir, INDEX_HTML)
       THEN reject(pr, 404, "build doesn't have index.html")
       ELSE commitRelease(pr, platform, staged, releases, buildKey,
                          srcDir.files[BUILD_INFO].info, now)

----------------------------------------------------------------------------
(* Rollback                                                                *)

\* mutant: the entry before the current release, the next-newer one
getNextReleaseBuildKey(dir) ==
    IF ~HasLedger(dir) THEN <<>>
    ELSE LET releases == ReadLedger(dir)
             releasesSortedByDate == sortByReleasedAt(releases.builds)
             currentReleaseIndex == FindIndex(releasesSortedByDate, releases.current)
         IN IF currentReleaseIndex <= 1 THEN <<>>
            ELSE releasesSortedByDate[currentReleaseIndex - 1].key

\* getPreviousReleaseBuildKey(gameDir, platform): <<>> stands for undefined
getPreviousReleaseBuildKey(dir) ==
    IF ~HasLedger(dir) THEN <<>>
    ELSE LET releases == ReadLedger(dir)
             releasesSortedByDate == sortByReleasedAt(releases.builds)
             currentReleaseIndex == FindIndex(releasesSortedByDate, releases.current)
         IN IF currentReleaseIndex = 0 THEN <<>>
            ELSE IF currentReleaseIndex + 1 > Len(releasesSortedByDate) THEN <<>>
            ELSE releasesSortedByDate[currentReleaseIndex + 1].key

\* mutant: the release rolled back to is also moved to the front of builds
recordRollbackMovingToFront(dir, releases, buildKey) ==
    LET i == FindIndex(releases.builds, buildKey)
        moved == <<releases.builds[i]>>
                    \o SelectSeq(releases.builds, LAMBDA b : b.key # buildKey)
    IN updateIndexHtmlSymlink(
          WriteLedger(dir, [current |-> buildKey, builds |-> moved]), buildKey)

\* lines 1226-1231: releases.current = key, write, repoint index.html
recordRollback(dir, releases, buildKey) ==
    updateIndexHtmlSymlink(WriteLedger(dir, [releases EXCEPT !.current = buildKey]), buildKey)

\* mutant: the handler without the test releases.current === buildKey
rollbackHandlerWithoutCurrentTest(pr, platform, param) ==
    LET releasesDir == pr[platform]
        buildKey == IF param # <<>> THEN param ELSE getPreviousReleaseBuildKey(releasesDir)
        releases == ReadLedger(releasesDir)
    IN IF buildKey = <<>> THEN reject(pr, 400, "there are no previous releases")
       ELSE IF ~isBuildKey(buildKey) THEN reject(pr, 400, "invalid build key")
       ELSE IF ~HasLedger(releasesDir) THEN Response(pr, 500, "exception", <<>>, {})
       ELSE IF buildKey \notin Keys(releases.builds)
       THEN reject(pr, 404, "release doesn't exist")
       ELSE Response([pr EXCEPT ![platform] = recordRollback(releasesDir, releases, buildKey)],
                     200, "ok", buildKey, {"outputJsonSync", "rmSync", "symlinkSync"})

\* app.get('/rollback/:game/:platform/:buildKey?'); readJsonSync throws when
\* releases.json is absent
rollbackHandler(pr, platform, param) ==
    LET releasesDir == pr[platform]
        buildKey == IF param # <<>> THEN param ELSE getPreviousReleaseBuildKey(releasesDir)
        releases == ReadLedger(releasesDir)
    IN IF buildKey = <<>> THEN reject(pr, 400, "there are no previous releases")
       ELSE IF ~isBuildKey(buildKey) THEN reject(pr, 400, "invalid build key")
       ELSE IF ~HasLedger(releasesDir) THEN Response(pr, 500, "exception", <<>>, {})
       ELSE IF releases.current = buildKey
       THEN reject(pr, 400, "is current release")
       ELSE IF buildKey \notin Keys(releases.builds)
       THEN reject(pr, 404, "release doesn't exist")
       ELSE Response([pr EXCEPT ![platform] = recordRollback(releasesDir, releases, buildKey)],
                     200, "ok", buildKey, {"outputJsonSync", "rmSync", "symlinkSync"})

----------------------------------------------------------------------------
(* Deployments of an environment                                           *)

deploymentsNumToKeep == 10

\* what preDeploy leaves: the environment directories, the response with
\* newBuildVersion and builds of its body (0 and <<>> when the body has none)
PreDeployResponse(es, status, msg, writes, newBuildVersion, builds) ==
    [envs |-> es, status |-> status, msg |-> msg, writes |-> writes,
     newBuildVersion |-> newBuildVersion, builds |-> builds]

\* what a deployment handler leaves: the environment directories, the response
DeployResponse(es, status, msg, writes) ==
    PreDeployResponse(es, status, msg, writes, 0, <<>>)

\* numbers in ascending order: sort((a, b) => a - b)
RECURSIVE sortAscending(_)
sortAscending(S) ==
    IF S = {} THEN <<>>
    ELSE LET m == CHOOSE m \in S : \A o \in S : m <= o
         IN <<m>> \o sortAscending(S \ {m})

\* the names of <env>/ that parse as an integer and are directories
numericBuilds(envDir) == {d \in DOMAIN envDir.dirs : parseInt(d) # NaN}

\* mutant: every build_info.json passes
buildInfoSchemaAny(info) == TRUE

\* z.object({version, builtAt, builtAtReadable, gitCommitHash, gitBranch}).safeParse
buildInfoSchema(info) ==
    {"version", "builtAt", "builtAtReadable", "gitCommitHash", "gitBranch"}
        \subseteq DOMAIN info

\* mutant: one deployment fewer than asked for stays
removeOldDeploymentsButOne(envDir, keep) ==
    LET allBuilds == numericBuilds(envDir)
        buildsToKeep == {d \in allBuilds :
            Cardinality({o \in allBuilds : parseInt(o) > parseInt(d)}) < keep - 1}
        left == (DOMAIN envDir.dirs) \ (allBuilds \ buildsToKeep)
    IN [env |-> [envDir EXCEPT !.dirs = [d \in left |-> envDir.dirs[d]],
                               !.mtime = [d \in left |-> envDir.mtime[d]]],
        removedPaths |-> allBuilds \ buildsToKeep]

\* removeOldDeployments(envDir, {buildsNumToKeep}): the keep highest versions stay
removeOldDeployments(envDir, keep) ==
    LET allBuilds == numericBuilds(envDir)
        buildsToKeep == {d \in allBuilds :
            Cardinality({o \in allBuilds : parseInt(o) > parseInt(d)}) < keep}
        buildsToRemove == allBuilds \ buildsToKeep
        left == (DOMAIN envDir.dirs) \ buildsToRemove
    IN [env |-> [envDir EXCEPT !.dirs = [d \in left |-> envDir.dirs[d]],
                               !.mtime = [d \in left |-> envDir.mtime[d]]],
        removedPaths |-> buildsToRemove]

\* mutant: no directory counts as empty
isEmptyDirNever(files) == FALSE

\* isEmptyDir(dirPath), for a directory: readdirSync(dirPath).length === 0
isEmptyDir(files) == files = NoFiles

\* app.get('/preDeploy/:game/:env/:version'); statSync of a `latest` whose
\* target is gone throws
preDeployHandler(es, env, param, now) ==
    LET build == parseInt(param)
        envDir == IF EnvDir(es, env).exists THEN EnvDir(es, env)
                  ELSE [NoEnv EXCEPT !.exists = TRUE]
        ensured == [es EXCEPT ![env] = envDir]
        dangling == envDir.latest # <<>> /\ envDir.latest \notin DOMAIN envDir.dirs
        existingBuilds ==
            {parseInt(d) : d \in {d \in DOMAIN envDir.dirs : ~isEmptyDir(envDir.dirs[d])}}
                \ {NaN}
        lastBuildVersion ==
            IF existingBuilds = {} THEN 0
            ELSE CHOOSE v \in existingBuilds : \A o \in existingBuilds : o <= v
        buildName == ToStr(build)
        lastName == ToStr(lastBuildVersion)
        buildDir == ensureDirSync(BuildDir(ensured, env, buildName))
        cloned == IF lastBuildVersion # 0
                  THEN copySync(BuildDir(ensured, env, lastName), buildDir)
                  ELSE buildDir
        names == (DOMAIN envDir.dirs) \cup {buildName}
        created == [envDir EXCEPT
                      !.dirs = [d \in names |->
                                  IF d = buildName THEN cloned.files ELSE envDir.dirs[d]],
                      !.mtime = [d \in names |->
                                  IF d = buildName THEN now ELSE envDir.mtime[d]]]
    IN IF build = NaN \/ build <= 0
       THEN DeployResponse(es, 400, "invalid version", {})
       ELSE IF dangling
       THEN DeployResponse(ensured, 500, "exception", {"ensureDirSync"})
       ELSE IF build \in existingBuilds
       THEN PreDeployResponse(ensured, 400, "version already exists", {"ensureDirSync"},
                              lastBuildVersion + 1, sortAscending(existingBuilds))
       ELSE IF lastBuildVersion # 0 /\ lastName \notin DOMAIN envDir.dirs
       THEN DeployResponse([ensured EXCEPT ![env] =
                               [created EXCEPT !.dirs[buildName] = buildDir.files]],
                           500, "exception", {"ensureDirSync"})
       ELSE PreDeployResponse([ensured EXCEPT ![env] = created], 200, "ok",
                              {"ensureDirSync", "copySync"},
                              build, sortAscending(existingBuilds))

\* app.get('/postDeploy/:game/:env/:version')
postDeployHandler(es, env, deployedBuildVersion, now) ==
    LET envDir == EnvDir(es, env)
        deployedBuildDir == BuildDir(es, env, deployedBuildVersion)
        linked == [envDir EXCEPT !.latest = deployedBuildVersion,
                                 !.mtime[deployedBuildVersion] = now]
        pruned == removeOldDeployments(linked, deploymentsNumToKeep)
    IN IF deployedBuildVersion = <<>>
       THEN DeployResponse(es, 404, "build doesn't exist", {})
       ELSE IF ~deployedBuildDir.exists
       THEN DeployResponse(es, 404, "build directory doesn't exist", {})
       ELSE IF ~HasFile(deployedBuildDir, BUILD_INFO)
       THEN DeployResponse(es, 404, "build doesn't have build_info.json", {})
       ELSE IF ~HasFile(deployedBuildDir, INDEX_HTML)
       THEN DeployResponse(es, 404, "build doesn't have index.html", {})
       ELSE IF ~buildInfoSchema(deployedBuildDir.files[BUILD_INFO].info)
       THEN DeployResponse(es, 400, "build info file is invalid", {})
       ELSE DeployResponse([es EXCEPT ![env] = pruned.env], 200, "ok",
                           {"rmSync", "symlinkSync", "utimesSync"})

\* app.get('/deployments/:game/:env/current'): the status and, with 200, the
\* version reported; existsSync and realpathSync follow the link
currentDeployment(es, env) ==
    LET envDir == EnvDir(es, env)
        version == envDir.latest
        currentBuild == BuildDir(es, env, version)
    IN IF ~envDir.exists THEN [status |-> 404, version |-> NaN]
       ELSE IF version = <<>> \/ ~currentBuild.exists THEN [status |-> 404, version |-> NaN]
       ELSE IF parseInt(version) = NaN THEN [status |-> 500, version |-> NaN]
       ELSE IF ~HasFile(currentBuild, BUILD_INFO) THEN [status |-> 500, version |-> NaN]
       ELSE [status |-> 200, version |-> parseInt(version)]

----------------------------------------------------------------------------
(* The system: one game, sequential requests                               *)

MASTER == <<"master">>

MAIN == <<"main">>

DEV == <<"dev">>

WEB == <<"web">>

Platforms == {WEB}

ProdDirs == Platforms \cup {TempName(p) : p \in Platforms}

\* build_info.json as the build producer writes it
BuildInfoOf(env, v) ==
    [version |-> v,
     builtAt |-> v,
     builtAtReadable |-> <<"built_">> \o ToStr(v),
     gitCommitHash |-> <<"commit">> \o ToStr(v),
     gitBranch |-> env]

\* a complete build directory: build_info.json, index.html, a file every
\* build has under the same name and a file only this build has
BuildFiles(env, v) ==
    LET key == createBuildKey(env, ToStr(v))
    IN [f \in {BUILD_INFO, INDEX_HTML, <<"main.js">>, <<"asset_">> \o ToStr(v) \o <<".js">>} |->
          IF f = BUILD_INFO THEN BuildInfoFile(BuildInfoOf(env, v)) ELSE Data(key)]

\* <env>/ holding the complete builds of the versions vs
EnvWith(env, vs) ==
    [exists |-> TRUE,
     dirs |-> [d \in {ToStr(v) : v \in vs} |-> BuildFiles(env, parseInt(d))],
     latest |-> <<>>,
     mtime |-> [d \in {ToStr(v) : v \in vs} |-> 0]]

\* dev/1 lacks build_info.json, dev/2 lacks index.html
BrokenEnv ==
    [exists |-> TRUE,
     dirs |-> [d \in {ToStr(1), ToStr(2)} |->
                 IF d = ToStr(1) THEN RemoveFiles(BuildFiles(DEV, 1), {BUILD_INFO})
                 ELSE RemoveFiles(BuildFiles(DEV, 2), {INDEX_HTML})],
     latest |-> <<>>,
     mtime |-> [d \in {ToStr(1), ToStr(2)} |-> 0]]

\* the game's environments: master with the builds 1..n, and dev
GameWith(n) == [e \in {MASTER, DEV} |-> IF e = MASTER THEN EnvWith(MASTER, 1..n) ELSE BrokenEnv]

MasterKey(v) == createBuildKey(MASTER, ToStr(v))

\* builds of master next to the platform with a history: one more than the
\* ledger keeps, so that publishing them all prunes
HistoryBuilds == buildsNumToKeep + 1

NoProd == [d \in ProdDirs |-> NoDir]

\* prod/ after master-1 .. master-n were published to web in this order, all
\* within the first second
RECURSIVE PublishedInOrder(_, _)
PublishedInOrder(es, n) ==
    IF n = 0 THEN NoProd
    ELSE publishHandler(es, PublishedInOrder(es, n - 1), WEB, MasterKey(n), 0).prod

\* keys a request may carry; <<>> is the omitted parameter.  Next to the
\* platform that starts empty: the builds of master, a build that does not
\* exist, the two incomplete builds of dev and two malformed keys.  Next to
\* the platform with a history: the builds of master
BuildKeyParams(es) ==
    IF es = GameWith(MaxFresh)
    THEN {<<>>}
            \cup {MasterKey(v) : v \in 1..(MaxFresh + 1)}
            \cup {createBuildKey(DEV, ToStr(1)), createBuildKey(DEV, ToStr(2))}
            \cup {<<"invalid", "-", "key">>, <<"master", "-">>}
    ELSE {<<>>} \cup {MasterKey(v) : v \in 1..HistoryBuilds}

\* the deployments finalized before the first request: the build directories
\* that postDeploy accepts
FinalizedIn(es) ==
    {x \in (DOMAIN es) \X UNION {DOMAIN es[e].dirs : e \in DOMAIN es} :
        postDeployHandler(es, x[1], x[2], 0).status = 200}

NoRequest == [op |-> "none", platform |-> <<>>, key |-> <<>>, status |-> 0,
              msg |-> "", rel |-> <<>>, writes |-> {},
              newBuildVersion |-> 0, builds |-> <<>>]

\* a publish handler that has not been entered: its position and its locals
\* (releases, buildInfo; releases, buildsToKeep and filesAll of removeOldReleases;
\* todo is what a copySync or forEach in progress has not done yet)
NoHandler ==
    [pc |-> "idle", key |-> <<>>, status |-> 0, recorded |-> FALSE,
     releases |-> NewReleases, buildInfo |-> <<>>, todo |-> <<>>,
     pruned |-> NewReleases, buildsToKeep |-> <<>>, filesAll |-> {}]

NoHandlers == [r \in 1..MaxHandlers |-> NoHandler]

\* either a platform that does not exist yet, or the platform after the
\* builds 1..HistoryLen of master were published
Init ==
    /\ \/ /\ envs = GameWith(MaxFresh)
          /\ prod = NoProd
          /\ published = {}
       \/ /\ envs = GameWith(HistoryBuilds)
          /\ prod = PublishedInOrder(envs, HistoryLen)
          /\ published = {MasterKey(v) : v \in 1..HistoryLen}
    /\ finalized = FinalizedIn(envs)
    /\ clock = 0
    /\ last = NoRequest
    /\ handlers = NoHandlers
    /\ running = 0

\* GET /publish/:game/:platform/:buildKey?, dt ticks after the previous request
Publish(platform, param, dt) ==
    /\ clock + dt <= MaxClock
    /\ clock' = clock + dt
    /\ LET out == publishHandler(envs, prod, platform, param, clock')
       IN /\ prod' = out.prod
          /\ last' = [op |-> "publish", platform |-> platform, key |-> param,
                      status |-> out.status, msg |-> out.msg, rel |-> out.rel,
                      writes |-> out.writes,
                      newBuildVersion |-> 0, builds |-> <<>>]
          /\ published' = IF out.status = 200 THEN published \cup {out.rel} ELSE published
    /\ UNCHANGED <<envs, finalized, handlers, running>>

\* GET /rollback/:game/:platform/:buildKey?
Rollback(platform, param) ==
    /\ LET out == rollbackHandler(prod, platform, param)
       IN /\ prod' = out.prod
          /\ last' = [op |-> "rollback", platform |-> platform, key |-> param,
                      status |-> out.status, msg |-> out.msg, rel |-> out.rel,
                      writes |-> out.writes,
                      newBuildVersion |-> 0, builds |-> <<>>]
    /\ UNCHANGED <<envs, clock, published, finalized, handlers, running>>

Next ==
    \/ \E p \in Platforms, k \in BuildKeyParams(envs), dt \in {0, 1} : Publish(p, k, dt)
    \/ \E p \in Platforms, k \in BuildKeyParams(envs) : Rollback(p, k)

Spec == Init /\ [][Next]_vars

\* master and main each absent, empty, or holding complete builds of some of
\* the versions 1..MaxLatest; the platform does not exist yet
EnvChoices(env) ==
    {NoEnv} \cup {EnvWith(env, vs) : vs \in SUBSET (1..MaxLatest)}

InitLatest ==
    /\ envs \in [{MASTER, MAIN} -> EnvChoices(MASTER) \cup EnvChoices(MAIN)]
    /\ envs[MASTER] \in EnvChoices(MASTER)
    /\ envs[MAIN] \in EnvChoices(MAIN)
    /\ prod = NoProd
    /\ published = {}
    /\ finalized = FinalizedIn(envs)
    /\ clock = 0
    /\ last = NoRequest
    /\ handlers = NoHandlers
    /\ running = 0

SpecLatest == InitLatest /\ [][Next]_vars

\* dev/1 lacks build_info.json, dev/2 lacks index.html and build_info.json of
\* dev/3 has no gitBranch
DeployedDev ==
    LET invalid == [f \in DOMAIN BuildFiles(DEV, 3) |->
                      IF f = BUILD_INFO
                      THEN BuildInfoFile([x \in (DOMAIN BuildInfoOf(DEV, 3)) \ {"gitBranch"} |->
                                             BuildInfoOf(DEV, 3)[x]])
                      ELSE BuildFiles(DEV, 3)[f]]
        names == (DOMAIN BrokenEnv.dirs) \cup {ToStr(3)}
    IN [BrokenEnv EXCEPT
          !.dirs = [d \in names |-> IF d = ToStr(3) THEN invalid ELSE BrokenEnv.dirs[d]],
          !.mtime = [d \in names |-> 0]]

\* master holds as many deployments as retention keeps, the highest finalized
\* last; nothing was published yet
InitDeploy ==
    /\ envs = [e \in {MASTER, DEV} |->
                 IF e = MASTER
                 THEN [EnvWith(MASTER, 1..deploymentsNumToKeep) EXCEPT
                          !.latest = ToStr(deploymentsNumToKeep)]
                 ELSE DeployedDev]
    /\ prod = NoProd
    /\ published = {}
    /\ finalized = FinalizedIn(envs)
    /\ clock = 0
    /\ last = NoRequest
    /\ handlers = NoHandlers
    /\ running = 0

\* GET /preDeploy/:game/:env/:version
PreDeploy(env, param) ==
    /\ LET out == preDeployHandler(envs, env, param, clock)
       IN /\ envs' = out.envs
          /\ last' = [op |-> "preDeploy", platform |-> env, key |-> param,
                      status |-> out.status, msg |-> out.msg, rel |-> <<>>,
                      writes |-> out.writes,
                      newBuildVersion |-> out.newBuildVersion, builds |-> out.builds]
    /\ UNCHANGED <<prod, clock, published, finalized, handlers, running>>

\* GET /postDeploy/:game/:env/:version
PostDeploy(env, param) ==
    /\ LET out == postDeployHandler(envs, env, param, clock)
       IN /\ envs' = out.envs
          /\ last' = [op |-> "postDeploy", platform |-> env, key |-> param,
                      status |-> out.status, msg |-> out.msg, rel |-> <<>>,
                      writes |-> out.writes,
                      newBuildVersion |-> 0, builds |-> <<>>]
          /\ finalized' = IF out.status = 200 THEN finalized \cup {<<env, param>>}
                          ELSE finalized
    /\ UNCHANGED <<prod, clock, published, handlers, running>>

\* the version after the ones retention keeps
NextVersion == ToStr(deploymentsNumToKeep + 1)

\* versions a deployment request names: the new one, and an existing one
DeployParams == {NextVersion, ToStr(3)}

\* keys a Publish names next to the deployments: the oldest and the new build
\* of master, a build of master that never existed, the incomplete builds of
\* dev and a malformed key
ReleaseParams ==
    {MasterKey(1), createBuildKey(MASTER, NextVersion), MasterKey(0),
     <<"invalid", "-", "key">>,
     createBuildKey(DEV, ToStr(1)), createBuildKey(DEV, ToStr(2))}

NextDeploy ==
    \/ \E v \in DeployParams : PreDeploy(MASTER, v)
    \/ \E e \in {MASTER, DEV}, v \in DeployParams : PostDeploy(e, v)
    \/ \E v \in {ToStr(1), ToStr(2)} : PostDeploy(DEV, v)
    \/ \E p \in Platforms, k \in ReleaseParams, dt \in {0, 1} : Publish(p, k, dt)
    \/ \E p \in Platforms, k \in {<<>>, MasterKey(1)} : Rollback(p, k)

SpecDeploy == InitDeploy /\ [][NextDeploy]_vars

\* master-1, master-2, ... are published in this order to a platform that does
\* not exist yet; then only rollbacks without a key follow
InitSequence ==
    /\ envs = GameWith(MaxPublished)
    /\ prod = NoProd
    /\ published = {}
    /\ finalized = FinalizedIn(envs)
    /\ clock = 0
    /\ last = NoRequest
    /\ handlers = NoHandlers
    /\ running = 0

NextSequence ==
    \/ /\ last.op \in {"none", "publish"}
       /\ Cardinality(published) < MaxPublished
       /\ \E dt \in {0, 1} : Publish(WEB, MasterKey(Cardinality(published) + 1), dt)
    \/ /\ last.op \in {"publish", "rollback"}
       /\ Rollback(WEB, <<>>)

SpecSequence == InitSequence /\ [][NextSequence]_vars

\* master holds as many finalized deployments as retention keeps, and the
\* platform one release less than the ledger keeps
InitHistory ==
    /\ envs = [e \in {MASTER} |->
                 [EnvWith(MASTER, 1..deploymentsNumToKeep) EXCEPT
                     !.latest = ToStr(deploymentsNumToKeep)]]
    /\ prod = PublishedInOrder(envs, buildsNumToKeep - 1)
    /\ published = {MasterKey(v) : v \in 1..(buildsNumToKeep - 1)}
    /\ finalized = FinalizedIn(envs)
    /\ clock = 0
    /\ last = NoRequest
    /\ handlers = NoHandlers
    /\ running = 0

\* the next deployment of master, the next two releases, rollbacks
NextHistory ==
    \/ PreDeploy(MASTER, NextVersion)
    \/ PostDeploy(MASTER, NextVersion)
    \/ \E v \in {buildsNumToKeep, buildsNumToKeep + 1}, dt \in {0, 1} :
          Publish(WEB, MasterKey(v), dt)
    \/ \E k \in {<<>>, MasterKey(1)} : Rollback(WEB, k)

SpecHistory == InitHistory /\ [][NextHistory]_vars

\* step 2 of the deployment workflow: the producer copies the files of build
\* `version` into the directory preDeploy has made
Upload(env, version) ==
    /\ BuildDir(envs, env, version).exists
    /\ envs' = [envs EXCEPT
                  ![env].dirs[version] =
                      copySync([exists |-> TRUE, files |-> BuildFiles(env, parseInt(version))],
                               BuildDir(envs, env, version)).files,
                  ![env].mtime[version] = clock]
    /\ last' = [NoRequest EXCEPT !.op = "upload", !.platform = env, !.key = version]
    /\ UNCHANGED <<prod, clock, published, finalized, handlers, running>>

\* versions the deployment requests name.  In the environment that starts
\* absent: the first ones.  In the environment that starts full: the ones after
\* those retention keeps, and the lowest one
EnvVersions(es) ==
    IF ToStr(deploymentsNumToKeep) \in DOMAIN EnvDir(es, MASTER).dirs
    THEN {ToStr(1)} \cup {ToStr(deploymentsNumToKeep + v) : v \in 1..MaxNewVersions}
    ELSE {ToStr(v) : v \in 1..(MaxNewVersions + 1)}

\* master does not exist yet, or holds as many finalized deployments as
\* retention keeps
InitEnv ==
    /\ \/ envs = [e \in {MASTER} |-> NoEnv]
       \/ envs = [e \in {MASTER} |->
                    [EnvWith(MASTER, 1..deploymentsNumToKeep) EXCEPT
                        !.latest = ToStr(deploymentsNumToKeep)]]
    /\ prod = NoProd
    /\ published = {}
    /\ finalized = FinalizedIn(envs)
    /\ clock = 0
    /\ last = NoRequest
    /\ handlers = NoHandlers
    /\ running = 0

NextEnv ==
    \/ \E v \in EnvVersions(envs) \cup {ToStr(0)} : PreDeploy(MASTER, v)
    \/ \E v \in EnvVersions(envs) : Upload(MASTER, v)
    \/ \E v \in EnvVersions(envs) : PostDeploy(MASTER, v)

SpecEnv == InitEnv /\ [][NextEnv]_vars

----------------------------------------------------------------------------
(* What the claims observe                                                 *)

\* mutant: the stored document without its builds
loadReleasesWithoutBuilds(dir) ==
    IF ~dir.exists THEN [current |-> <<>>, builds |-> <<>>]
    ELSE IF ~HasLedger(dir) THEN [current |-> <<>>, builds |-> <<>>]
    ELSE [current |-> ReadLedger(dir).current, builds |-> <<>>]

\* GET /releases/:game/:platform : the ledger, {current: null, builds: []}
\* when the platform directory or releases.json is absent (null is <<>>)
loadReleases(dir) ==
    IF ~dir.exists THEN [current |-> <<>>, builds |-> <<>>]
    ELSE IF ~HasLedger(dir) THEN [current |-> <<>>, builds |-> <<>>]
    ELSE ReadLedger(dir)

\* the platform directory and its ledger
Platform == prod[WEB]

Ledger == loadReleases(prod[WEB])

\* index.html of the directory is a symlink that resolves to the file `name`
\* of the same directory
PointsTo(dir, name) ==
    /\ HasFile(dir, INDEX_HTML)
    /\ dir.files[INDEX_HTML].t = "symlink"
    /\ dir.files[INDEX_HTML].target \in {name, <<"./">> \o name}

PublishOk == last.op = "publish" /\ last.status = 200

RollbackOk == last.op = "rollback" /\ last.status = 200

AlreadyReleased == last.op = "publish" /\ last.status = 400 /\ last.msg = "was already released"

----------------------------------------------------------------------------
(* Listing the releases of a platform                                      *)

\* GET /releases/:game/:platform : the response carries the document, its
\* current in rel and its builds in builds
ListReleases(platform) ==
    /\ LET out == loadReleases(prod[platform])
       IN last' = [NoRequest EXCEPT !.op = "releases", !.platform = platform,
                                    !.status = 200, !.rel = out.current,
                                    !.builds = out.builds]
    /\ UNCHANGED <<envs, prod, clock, published, finalized, handlers, running>>

\* the platform directory is absent, or exists without releases.json, or holds
\* the ledger of the builds 1..HistoryLen of master
InitList ==
    /\ \/ /\ envs = GameWith(MaxFresh)
          /\ prod \in {NoProd, [NoProd EXCEPT ![WEB] = EmptyDir]}
          /\ published = {}
       \/ /\ envs = GameWith(HistoryBuilds)
          /\ prod = PublishedInOrder(envs, HistoryLen)
          /\ published = {MasterKey(v) : v \in 1..HistoryLen}
    /\ finalized = FinalizedIn(envs)
    /\ clock = 0
    /\ last = NoRequest
    /\ handlers = NoHandlers
    /\ running = 0

NextList ==
    \/ Next
    \/ \E p \in Platforms : ListReleases(p)

SpecList == InitList /\ [][NextList]_vars

----------------------------------------------------------------------------
(* The BuildKey codec on its own                                           *)

\* what build keys are written with: environment names, '-', digits
KeyTokens == {"master", "my_env", "-", "0", "1", "2"}

\* the strings of up to MaxKeyLen tokens that isBuildKey accepts
KeyStrings ==
    {s \in UNION {[1..n -> KeyTokens] : n \in 1..MaxKeyLen} : isBuildKey(s)}

\* a valid build key is about to be parsed
InitCodec ==
    /\ envs = [e \in {MASTER} |-> NoEnv]
    /\ prod = NoProd
    /\ published = {}
    /\ finalized = {}
    /\ clock = 0
    /\ \E s \in KeyStrings : last = [NoRequest EXCEPT !.op = "key", !.key = s]
    /\ handlers = NoHandlers
    /\ running = 0

\* const {env, version} = parseBuildKey(key); createBuildKey(env, version):
\* the version parsed is kept in newBuildVersion, the key rebuilt in rel
RoundTrip ==
    /\ last.op = "key"
    /\ LET parsed == parseBuildKey(last.key)
       IN last' = [last EXCEPT !.op = "roundTrip",
                               !.newBuildVersion = parsed.version,
                               !.rel = createBuildKey(parsed.env, ToStr(parsed.version))]
    /\ UNCHANGED <<envs, prod, clock, published, finalized, handlers, running>>

SpecCodec == InitCodec /\ [][RoundTrip]_vars

----------------------------------------------------------------------------
(* The publish handler, one file-system call at a time.  A handler runs    *)
(* without interruption until it awaits globby inside removeOldReleases;   *)
(* while it waits, the event loop runs other handlers.                     *)

\* the build directories of master, and the key handler r publishes
StepBuilds == buildsNumToKeep + MaxHandlers

StepKey(r) == MasterKey(buildsNumToKeep + r)

\* the status of the refusal of lines 1108-1147, 0 when the request passes
publishRefusal(es, pr, platform, param) ==
    LET chosen == publishBuildKey(es, param)
        buildKey == chosen.key
        releases == IF HasLedger(pr[platform]) THEN ReadLedger(pr[platform])
                    ELSE NewReleases
        parsed == parseBuildKey(buildKey)
        srcDir == BuildDir(es, parsed.env, ToStr(parsed.version))
    IN IF chosen.throws THEN 500
       ELSE IF buildKey = <<>> THEN 400
       ELSE IF ~isBuildKey(buildKey) THEN 400
       ELSE IF alreadyReleased(releases, buildKey) THEN 400
       ELSE IF ~srcDir.exists THEN 404
       ELSE IF ~HasFile(srcDir, BUILD_INFO) THEN 404
       ELSE IF ~HasFile(srcDir, INDEX_HTML) THEN 404
       ELSE 0

\* srcDir of a handler
SrcDir(h) ==
    BuildDir(envs, parseBuildKey(h.key).env, ToStr(parseBuildKey(h.key).version))

\* copySync, one file of it: file f of src is written to dest
copyFile(src, dest, f) ==
    [exists |-> TRUE, files |-> WriteFile(dest.files, f, src.files[f])]

\* handler r is at `pc` and holds the event loop
At(r, pc) == handlers[r].pc = pc /\ running = r

InFlight(r) == handlers[r].pc \notin {"idle", "done", "crashed"}

\* lines 1101-1147: the request arrives dt ticks after the previous one, the
\* key is validated and releases.json is read
BeginPublish(r, dt) ==
    /\ handlers[r].pc = "idle"
    /\ running = 0
    /\ clock + dt <= MaxClock
    /\ clock' = clock + dt
    /\ LET refusal == publishRefusal(envs, prod, WEB, StepKey(r))
       IN IF refusal # 0
          THEN /\ handlers' = [handlers EXCEPT ![r].pc = "done", ![r].key = StepKey(r),
                                               ![r].status = refusal]
               /\ running' = 0
          ELSE /\ handlers' = [handlers EXCEPT
                                  ![r].pc = "ensureDirSync",
                                  ![r].key = StepKey(r),
                                  ![r].releases = IF HasLedger(prod[WEB])
                                                  THEN ReadLedger(prod[WEB])
                                                  ELSE NewReleases]
               /\ running' = r
    /\ UNCHANGED <<envs, prod, last, published, finalized>>

\* line 1154: fse.ensureDirSync(destDirTemp)
EnsureTemp(r) ==
    /\ At(r, "ensureDirSync")
    /\ prod' = [prod EXCEPT ![TempName(WEB)] = ensureDirSync(@)]
    /\ handlers' = [handlers EXCEPT ![r].pc = "stageCopy",
                                    ![r].todo = SetToSeq(DOMAIN SrcDir(handlers[r]).files)]
    /\ UNCHANGED <<envs, clock, last, published, finalized, running>>

\* line 1155: fse.copySync(srcDir, destDirTemp), the next file of it
StageCopy(r) ==
    /\ At(r, "stageCopy")
    /\ LET h == handlers[r]
       IN /\ prod' = [prod EXCEPT ![TempName(WEB)] = copyFile(SrcDir(h), @, Head(h.todo))]
          /\ handlers' = [handlers EXCEPT
                            ![r].todo = Tail(h.todo),
                            ![r].pc = IF Tail(h.todo) = <<>> THEN "rmBuildInfo" ELSE "stageCopy"]
    /\ UNCHANGED <<envs, clock, last, published, finalized, running>>

\* lines 1157-1160: build_info.json of the staged copy is read and removed
RmBuildInfo(r) ==
    /\ At(r, "rmBuildInfo")
    /\ LET temp == prod[TempName(WEB)]
       IN /\ prod' = [prod EXCEPT ![TempName(WEB)].files = RemoveFiles(temp.files, {BUILD_INFO})]
          /\ handlers' = [handlers EXCEPT ![r].pc = "renameSync",
                                          ![r].buildInfo = temp.files[BUILD_INFO].info]
    /\ UNCHANGED <<envs, clock, last, published, finalized, running>>

\* line 1163: index.html becomes index_<key>.html
RenameIndex(r) ==
    /\ At(r, "renameSync")
    /\ prod' = [prod EXCEPT ![TempName(WEB)].files =
                   RenameFile(@, INDEX_HTML, IndexName(handlers[r].key))]
    /\ handlers' = [handlers EXCEPT ![r].pc = "outputManifest"]
    /\ UNCHANGED <<envs, clock, last, published, finalized, running>>

\* lines 1166-1170: files_<key>.json lists itself and what globbySync finds
OutputManifest(r) ==
    /\ At(r, "outputManifest")
    /\ LET temp == prod[TempName(WEB)]
           key == handlers[r].key
           files == <<FilesName(key)>> \o SetToSeq(globby(temp))
           written == WriteFile(temp.files, FilesName(key), ManifestFile(files))
       IN /\ prod' = [prod EXCEPT ![TempName(WEB)].files = written]
          /\ handlers' = [handlers EXCEPT ![r].pc = "commitCopy",
                                          ![r].todo = SetToSeq(DOMAIN written)]
    /\ UNCHANGED <<envs, clock, last, published, finalized, running>>

\* line 1173: fse.copySync(destDirTemp, destDir), the next file of it
CommitCopy(r) ==
    /\ At(r, "commitCopy")
    /\ LET h == handlers[r]
       IN /\ prod' = [prod EXCEPT ![WEB] = copyFile(prod[TempName(WEB)], @, Head(h.todo))]
          /\ handlers' = [handlers EXCEPT
                            ![r].todo = Tail(h.todo),
                            ![r].pc = IF Tail(h.todo) = <<>> THEN "rmTemp" ELSE "commitCopy"]
    /\ UNCHANGED <<envs, clock, last, published, finalized, running>>

\* line 1176: fse.rmSync(destDirTemp, {recursive: true})
RmTemp(r) ==
    /\ At(r, "rmTemp")
    /\ prod' = [prod EXCEPT ![TempName(WEB)] = NoDir]
    /\ handlers' = [handlers EXCEPT ![r].pc = "outputReleases"]
    /\ UNCHANGED <<envs, clock, last, published, finalized, running>>

\* lines 1179-1182: the release is put in front of the releases read at the
\* start and releases.json is written
OutputReleases(r) ==
    /\ At(r, "outputReleases")
    /\ LET h == handlers[r]
           newRelease == createNewRelease(h.key, h.buildInfo, clock)
       IN prod' = [prod EXCEPT ![WEB] = recordPublish(@, h.releases, newRelease)]
    /\ handlers' = [handlers EXCEPT ![r].pc = "removeOldReleases", ![r].recorded = TRUE]
    /\ UNCHANGED <<envs, clock, last, published, finalized, running>>

\* lines 1329-1345 of removeOldReleases: releases.json is read again; with
\* nothing to remove the handler goes on, else it awaits globby and the event
\* loop is free
ReadToPrune(r) ==
    /\ At(r, "removeOldReleases")
    /\ LET releases == ReadLedger(prod[WEB])
           builds == sortByReleasedAt(releases.builds)
           buildsToKeep == newestBuilds(builds, buildsNumToKeep)
           buildsToRemove == SelectSeq(builds, LAMBDA b : b \notin SeqToSet(buildsToKeep))
       IN IF buildsToRemove = <<>>
          THEN /\ handlers' = [handlers EXCEPT ![r].pc = "rmSymlink"]
               /\ running' = r
          ELSE /\ handlers' = [handlers EXCEPT ![r].pc = "globby",
                                               ![r].pruned = releases,
                                               ![r].buildsToKeep = buildsToKeep]
               /\ running' = 0
    /\ UNCHANGED <<envs, prod, clock, last, published, finalized>>

\* line 1346: globby lists the platform directory, at some moment between the
\* call and the moment the handler goes on
Globby(r) ==
    /\ handlers[r].pc = "globby"
    /\ handlers' = [handlers EXCEPT ![r].pc = "globbed", ![r].filesAll = globby(prod[WEB])]
    /\ UNCHANGED <<envs, prod, clock, last, published, finalized, running>>

\* lines 1347-1352: the handler goes on when the event loop is free: the
\* manifests of the releases to keep are read (a missing one throws), what
\* else globby listed is to be removed
ReadManifests(r) ==
    /\ handlers[r].pc = "globbed"
    /\ running = 0
    /\ LET h == handlers[r]
           dir == prod[WEB]
           keep == h.buildsToKeep
           throws == \E i \in 1..Len(keep) : ~HasFile(dir, keep[i].files)
           filesToKeep == UNION {SeqToSet(dir.files[keep[i].files].list) : i \in 1..Len(keep)}
                              \cup {INDEX_HTML, RELEASES_JSON}
           filesToRemove == SetToSeq(h.filesAll \ filesToKeep)
       IN IF throws
          THEN /\ handlers' = [handlers EXCEPT ![r].pc = "done", ![r].status = 500]
               /\ running' = 0
          ELSE /\ handlers' = [handlers EXCEPT
                                  ![r].pc = IF filesToRemove = <<>> THEN "outputPruned"
                                            ELSE "rmFiles",
                                  ![r].todo = filesToRemove]
               /\ running' = r
    /\ UNCHANGED <<envs, prod, clock, last, published, finalized>>

\* line 1353: filesToRemove.forEach(rmSync), the next file of it; rmSync of a
\* file that is gone throws
RmFile(r) ==
    /\ At(r, "rmFiles")
    /\ LET h == handlers[r]
           f == Head(h.todo)
       IN IF ~HasFile(prod[WEB], f)
          THEN /\ handlers' = [handlers EXCEPT ![r].pc = "done", ![r].status = 500]
               /\ running' = 0
               /\ prod' = prod
          ELSE /\ prod' = [prod EXCEPT ![WEB].files = RemoveFiles(@, {f})]
               /\ handlers' = [handlers EXCEPT
                                  ![r].todo = Tail(h.todo),
                                  ![r].pc = IF Tail(h.todo) = <<>> THEN "outputPruned"
                                            ELSE "rmFiles"]
               /\ running' = r
    /\ UNCHANGED <<envs, clock, last, published, finalized>>

\* mutant: releases.json is read again and only the removed releases are cut
OutputPrunedReread(r) ==
    /\ At(r, "outputPruned")
    /\ LET h == handlers[r]
           releases == ReadLedger(prod[WEB])
           removed == Keys(h.pruned.builds) \ Keys(h.buildsToKeep)
       IN prod' = [prod EXCEPT ![WEB] =
                      WriteLedger(@, [releases EXCEPT
                          !.builds = SelectSeq(releases.builds,
                                               LAMBDA b : b.key \notin removed)])]
    /\ handlers' = [handlers EXCEPT ![r].pc = "rmSymlink"]
    /\ UNCHANGED <<envs, clock, last, published, finalized, running>>

\* lines 1356-1357: the releases read before the await, cut to buildsToKeep,
\* are written to releases.json
OutputPruned(r) ==
    /\ At(r, "outputPruned")
    /\ LET h == handlers[r]
       IN prod' = [prod EXCEPT ![WEB] =
                      WriteLedger(@, [h.pruned EXCEPT !.builds = h.buildsToKeep])]
    /\ handlers' = [handlers EXCEPT ![r].pc = "rmSymlink"]
    /\ UNCHANGED <<envs, clock, last, published, finalized, running>>

\* line 1367: fse.rmSync(filepath, {force: true})
RmSymlink(r) ==
    /\ At(r, "rmSymlink")
    /\ prod' = [prod EXCEPT ![WEB].files = RemoveFiles(@, {INDEX_HTML})]
    /\ handlers' = [handlers EXCEPT ![r].pc = "symlinkSync"]
    /\ UNCHANGED <<envs, clock, last, published, finalized, running>>

\* lines 1370 and 1189-1192: the symlink is created and the handler answers
SymlinkSync(r) ==
    /\ At(r, "symlinkSync")
    /\ prod' = [prod EXCEPT ![WEB].files =
                   WriteFile(@, INDEX_HTML, Symlink(SymlinkTarget(handlers[r].key)))]
    /\ handlers' = [handlers EXCEPT ![r].pc = "done", ![r].status = 200]
    /\ running' = 0
    /\ published' = published \cup {handlers[r].key}
    /\ UNCHANGED <<envs, clock, last, finalized>>

\* the process dies: the handlers in flight never go on, the files stay
Crash ==
    /\ \E r \in 1..MaxHandlers : InFlight(r)
    /\ handlers' = [r \in 1..MaxHandlers |->
                      IF InFlight(r) THEN [handlers[r] EXCEPT !.pc = "crashed"]
                      ELSE handlers[r]]
    /\ running' = 0
    /\ UNCHANGED <<envs, prod, clock, last, published, finalized>>

\* one step of handler r after its start
HandlerStep(r) ==
    \/ EnsureTemp(r)
    \/ StageCopy(r)
    \/ RmBuildInfo(r)
    \/ RenameIndex(r)
    \/ OutputManifest(r)
    \/ CommitCopy(r)
    \/ RmTemp(r)
    \/ OutputReleases(r)
    \/ ReadToPrune(r)
    \/ Globby(r)
    \/ ReadManifests(r)
    \/ RmFile(r)
    \/ OutputPruned(r)
    \/ RmSymlink(r)
    \/ SymlinkSync(r)

\* the platform does not exist yet, or holds as many releases as the ledger keeps
InitSteps ==
    /\ envs = GameWith(StepBuilds)
    /\ \/ /\ prod = NoProd
          /\ published = {}
       \/ /\ prod = PublishedInOrder(envs, buildsNumToKeep)
          /\ published = {MasterKey(v) : v \in 1..buildsNumToKeep}
    /\ finalized = FinalizedIn(envs)
    /\ clock = 0
    /\ last = NoRequest
    /\ handlers = NoHandlers
    /\ running = 0

\* requests arrive one after the other: none while another is in flight
NextSteps ==
    \/ \E r \in 1..MaxHandlers, dt \in {0, 1} :
          /\ \A o \in 1..MaxHandlers : ~InFlight(o)
          /\ BeginPublish(r, dt)
    \/ \E r \in 1..MaxHandlers : HandlerStep(r)
    \/ Crash

SpecSteps == InitSteps /\ [][NextSteps]_vars

\* requests arrive whenever the event loop is free
NextConcurrent ==
    \/ \E r \in 1..MaxHandlers, dt \in {0, 1} : BeginPublish(r, dt)
    \/ \E r \in 1..MaxHandlers : HandlerStep(r)

SpecConcurrent == InitSteps /\ [][NextConcurrent]_vars

----------------------------------------------------------------------------
(* Several platforms of one game                                           *)

IOS == <<"ios">>

\* platform names of the requests: any string is one, the name of another
\* platform's temporary directory too
PlatformNames == {WEB, TempName(WEB), IOS}

\* prod/<platform> and prod/<platform>_temp of every platform name
PlatformDirs == PlatformNames \cup {TempName(p) : p \in PlatformNames}

\* no platform exists yet; master holds the builds 1..MaxFresh
InitPlatforms ==
    /\ envs = GameWith(MaxFresh)
    /\ prod = [d \in PlatformDirs |-> NoDir]
    /\ published = {}
    /\ finalized = FinalizedIn(envs)
    /\ clock = 0
    /\ last = NoRequest
    /\ handlers = NoHandlers
    /\ running = 0

NextPlatforms ==
    \/ \E p \in PlatformNames, v \in 1..2 : Publish(p, MasterKey(v), 0)
    \/ \E p \in PlatformNames, k \in {<<>>, MasterKey(1)} : Rollback(p, k)

SpecPlatforms == InitPlatforms /\ [][NextPlatforms]_vars

----------------------------------------------------------------------------
(* Builds that hold a dot file                                             *)

\* a file whose name starts with a dot, as a producer may upload one
DOT_FILE == <<".", "htaccess">>

\* master holds the builds 1..MaxFresh, the last one with a dot file; the
\* platform does not exist yet
InitManifest ==
    /\ envs = [GameWith(MaxFresh) EXCEPT
                  ![MASTER].dirs[ToStr(MaxFresh)] =
                      WriteFile(@, DOT_FILE, Data(MasterKey(MaxFresh)))]
    /\ prod = NoProd
    /\ published = {}
    /\ finalized = FinalizedIn(envs)
    /\ clock = 0
    /\ last = NoRequest
    /\ handlers = NoHandlers
    /\ running = 0

NextManifest ==
    \/ \E v \in 1..MaxFresh, dt \in {0, 1} : Publish(WEB, MasterKey(v), dt)
    \/ \E k \in {<<>>, MasterKey(1)} : Rollback(WEB, k)

SpecManifest == InitManifest /\ [][NextManifest]_vars

----------------------------------------------------------------------------
(* The rollback handler, one file-system call at a time.  It awaits        *)
(* nothing: once started it runs to its answer unless the process dies.    *)

\* keys a rollback request may carry; <<>> is the omitted parameter
RollbackParams == {<<>>, MasterKey(1), MasterKey(2)}

\* lines 1196-1224: the key is chosen and validated and releases.json is read
BeginRollback(r, param) ==
    /\ handlers[r].pc = "idle"
    /\ running = 0
    /\ LET out == rollbackHandler(prod, WEB, param)
       IN IF out.status # 200
          THEN /\ handlers' = [handlers EXCEPT ![r].pc = "done", ![r].key = param,
                                               ![r].status = out.status]
               /\ running' = 0
          ELSE /\ handlers' = [handlers EXCEPT ![r].pc = "outputRollback",
                                               ![r].key = out.rel,
                                               ![r].releases = ReadLedger(prod[WEB])]
               /\ running' = r
    /\ UNCHANGED <<envs, prod, clock, last, published, finalized>>

\* lines 1226-1228: releases.current = buildKey, releases.json is written; the
\* handler goes on to updateIndexHtmlSymlink
OutputRollback(r) ==
    /\ At(r, "outputRollback")
    /\ prod' = [prod EXCEPT ![WEB] =
                   WriteLedger(@, [handlers[r].releases EXCEPT !.current = handlers[r].key])]
    /\ handlers' = [handlers EXCEPT ![r].pc = "rmSymlink"]
    /\ UNCHANGED <<envs, clock, last, published, finalized, running>>

\* the platform holds as many releases as the ledger keeps; the current one is
\* the newest, or after a rollback the oldest
InitRollbackSteps ==
    /\ envs = GameWith(StepBuilds)
    /\ \/ prod = PublishedInOrder(envs, buildsNumToKeep)
       \/ prod = rollbackHandler(PublishedInOrder(envs, buildsNumToKeep), WEB, MasterKey(1)).prod
    /\ published = {MasterKey(v) : v \in 1..buildsNumToKeep}
    /\ finalized = FinalizedIn(envs)
    /\ clock = 0
    /\ last = NoRequest
    /\ handlers = NoHandlers
    /\ running = 0

\* requests arrive one after the other; the process may die at any step
NextRollbackSteps ==
    \/ \E r \in 1..MaxHandlers, dt \in {0, 1} :
          /\ \A o \in 1..MaxHandlers : ~InFlight(o)
          /\ BeginPublish(r, dt)
    \/ \E r \in 1..MaxHandlers, k \in RollbackParams :
          /\ \A o \in 1..MaxHandlers : ~InFlight(o)
          /\ BeginRollback(r, k)
    \/ \E r \in 1..MaxHandlers : HandlerStep(r) \/ OutputRollback(r)
    \/ Crash

SpecRollbackSteps == InitRollbackSteps /\ [][NextRollbackSteps]_vars

----------------------------------------------------------------------------
(* Environments whose name contains a dash                                 *)

\* two environment names of [a-zA-Z0-9_-]+ with a dash in them
HOTFIX == <<"release", "-", "hotfix">>

MASTER_2 == <<"master", "-", "2">>

DashedEnvs == {MASTER, HOTFIX, MASTER_2}

\* every environment holds the complete builds 1..MaxLatest; the platform
\* does not exist yet
InitDashed ==
    /\ envs = [e \in DashedEnvs |-> EnvWith(e, 1..MaxLatest)]
    /\ prod = NoProd
    /\ published = {}
    /\ finalized = FinalizedIn(envs)
    /\ clock = 0
    /\ last = NoRequest
    /\ handlers = NoHandlers
    /\ running = 0

NextDashed ==
    \/ \E e \in DashedEnvs, v \in 1..MaxLatest, dt \in {0, 1} :
          Publish(WEB, createBuildKey(e, ToStr(v)), dt)
    \/ Rollback(WEB, <<>>)

SpecDashed == InitDashed /\ [][NextDashed]_vars

----------------------------------------------------------------------------
(* Publish and rollback requests that arrive whenever the event loop is    *)
(* free                                                                    *)

NextInterleaved ==
    \/ \E r \in 1..MaxHandlers, dt \in {0, 1} : BeginPublish(r, dt)
    \/ \E r \in 1..MaxHandlers, k \in RollbackParams : BeginRollback(r, k)
    \/ \E r \in 1..MaxHandlers : HandlerStep(r) \/ OutputRollback(r)

SpecInterleaved == InitRollbackSteps /\ [][NextInterleaved]_vars

----------------------------------------------------------------------------
(* Claims                                                                  *)

\* C1: in every state reached by completed Publish and Rollback calls, if
\* builds is non-empty and current is non-null then current is the key of an
\* entry of builds; the pruning inside Publish never removes the current release.
C1_CurrentIsListed ==
    (Ledger.builds # <<>> /\ Ledger.current # <<>>) => Ledger.current \in Keys(Ledger.builds)

\* a Publish that pruned: more keys were published than the ledger keeps
C1_Witness ==
    /\ PublishOk
    /\ Cardinality(published) > buildsNumToKeep
    /\ published \ Keys(Ledger.builds) # {}
    /\ Len(Ledger.builds) = buildsNumToKeep
    /\ Ledger.current = last.rel

\* C2: a successful Publish of key leaves current = key, builds[0] = the new
\* ReleaseInfo of key (index_<key>.html, files_<key>.json, released now); on an
\* empty ledger builds is exactly that entry; index.html points to index_<key>.html.
C2_PublishRecordsRelease ==
    [][PublishOk' =>
        LET key == last'.rel
        IN /\ last'.key # <<>> => key = last'.key
           /\ Ledger'.current = key
           /\ Len(Ledger'.builds) >= 1
           /\ Ledger'.builds[1].key = key
           /\ Ledger'.builds[1].index = IndexName(key)
           /\ Ledger'.builds[1].files = FilesName(key)
           /\ Ledger'.builds[1].releasedAt = toReadableDateString(clock')
           /\ Ledger.builds = <<>> => Len(Ledger'.builds) = 1
           /\ PointsTo(prod'[WEB], IndexName(key))
           /\ HasFile(prod'[WEB], IndexName(key))]_vars

\* the first Publish to a platform that did not exist
C2_Witness ==
    /\ PublishOk
    /\ Len(Ledger.builds) = 1
    /\ Ledger.current = last.rel
    /\ PointsTo(Platform, IndexName(last.rel))

\* C3: Publish merges: the releases of the ledger before it, up to the 4 newest,
\* follow the new release in builds in their order, and their index file, their
\* manifest and every file their manifest lists are on disk afterwards; after
\* K1 then K2, builds = [K2, K1], current = K2, index.html -> index_K2.html.
C3_PublishKeepsEarlierReleases ==
    [][PublishOk' =>
        LET old == Ledger.builds
            new == Ledger'.builds
            kept == Min(Len(old), buildsNumToKeep - 1)
        IN /\ Len(new) = kept + 1
           /\ \A i \in 1..kept :
                /\ new[i + 1] = old[i]
                /\ HasFile(prod'[WEB], old[i].index)
                /\ HasFile(prod'[WEB], old[i].files)
                /\ prod'[WEB].files[old[i].files] = prod[WEB].files[old[i].files]
                /\ \A f \in SeqToSet(prod[WEB].files[old[i].files].list) :
                      HasFile(prod'[WEB], f)
           /\ Len(old) = 1 =>
                /\ Ledger'.current = new[1].key
                /\ new[1].key # old[1].key
                /\ PointsTo(prod'[WEB], IndexName(new[1].key))]_vars

\* K2 published after K1: both releases' files are on disk
C3_Witness ==
    /\ PublishOk
    /\ Len(Ledger.builds) = 2
    /\ Ledger.builds[1].key = last.rel
    /\ \A i \in 1..2 : /\ HasFile(Platform, IndexName(Ledger.builds[i].key))
                       /\ HasFile(Platform, FilesName(Ledger.builds[i].key))

\* C4: Publish of a key that is in builds is rejected with 400 AlreadyReleased
\* before anything is staged: nothing under prod/ changes (releases.json, the
\* platform's files, index.html, no <platform>_temp) and no fs call writes.
C4_RepublishRejectedBeforeStaging ==
    [][(last'.op = "publish" /\ last'.key \in Keys(Ledger.builds)) =>
        /\ last'.status = 400
        /\ last'.msg = "was already released"
        /\ last'.writes = {}
        /\ prod' = prod
        /\ ~prod'[TempName(WEB)].exists]_vars

C4_Witness ==
    /\ AlreadyReleased
    /\ last.key \in Keys(Ledger.builds)
    /\ ~prod[TempName(WEB)].exists

\* C5 as stated: once Publish(key) has succeeded, every later Publish of key
\* fails with AlreadyReleased and leaves the ledger unchanged.
C5_PublishedKeyNeverAgain ==
    [][(last'.op = "publish" /\ last'.key \in published) =>
        /\ last'.status = 400
        /\ last'.msg = "was already released"
        /\ Ledger' = Ledger]_vars

\* C5 amended: once Publish(key) has succeeded, a later Publish of key fails
\* with AlreadyReleased and leaves the ledger unchanged for as long as key is
\* an entry of builds; key leaves builds only by pruning, after more than
\* buildsNumToKeep keys were published.
C5_PublishedKeyRejectedWhileListed ==
    [][(last'.op = "publish" /\ last'.key \in published) =>
        IF last'.key \in Keys(Ledger.builds)
        THEN /\ last'.status = 400
             /\ last'.msg = "was already released"
             /\ Ledger' = Ledger
        ELSE Cardinality(published) > buildsNumToKeep]_vars

\* a rejected second Publish of a key, with a later release published or a
\* rollback done in between
C5_Witness ==
    /\ AlreadyReleased
    /\ last.key \in published
    /\ Len(Ledger.builds) >= 2
    /\ \/ Ledger.builds[1].key # last.key
       \/ Ledger.current # Ledger.builds[1].key

\* C8: a successful Rollback to key is a pure pointer change: key was in builds
\* and was not current; afterwards current = key and index.html points to
\* index_<key>.html; builds (entries and order) and every other file of the
\* platform directory are unchanged; nothing is copied or deleted.
C8_RollbackIsPointerChange ==
    [][RollbackOk' =>
        LET key == last'.rel
            others == (DOMAIN prod[WEB].files) \ {INDEX_HTML, RELEASES_JSON}
        IN /\ last'.key # <<>> => key = last'.key
           /\ key \in Keys(Ledger.builds)
           /\ key # Ledger.current
           /\ Ledger'.current = key
           /\ Ledger'.builds = Ledger.builds
           /\ PointsTo(prod'[WEB], IndexName(key))
           /\ HasFile(prod'[WEB], IndexName(key))
           /\ DOMAIN prod'[WEB].files = DOMAIN prod[WEB].files
           /\ \A f \in others : prod'[WEB].files[f] = prod[WEB].files[f]
           /\ prod'[TempName(WEB)] = prod[TempName(WEB)]
           /\ "copySync" \notin last'.writes]_vars

\* a rollback to a release that is not the first entry of builds
C8_Witness ==
    /\ RollbackOk
    /\ last.key # <<>>
    /\ Ledger.current = last.key
    /\ Len(Ledger.builds) >= 3
    /\ Ledger.builds[1].key # last.key

\* C9: Rollback to the key that is current fails with 400 AlreadyCurrent and
\* writes nothing: releases.json is not rewritten, index.html neither removed
\* nor created.
C9_RollbackToCurrentRejected ==
    [][(last'.op = "rollback" /\ last'.key # <<>> /\ last'.key = Ledger.current) =>
        /\ last'.status = 400
        /\ last'.msg = "is current release"
        /\ last'.writes = {}
        /\ prod' = prod]_vars

C9_Witness ==
    /\ last.op = "rollback"
    /\ last.status = 400
    /\ last.msg = "is current release"
    /\ last.key = Ledger.current
    /\ PointsTo(Platform, IndexName(last.key))

\* C10: Rollback with a valid buildKey that is absent from builds fails with
\* 404 NotFound as a returned error value and changes nothing, also when the
\* platform has no releases.json (the ledger then loads as {null, []}).
C10_RollbackOfUnknownKeyIsNotFound ==
    [][(last'.op = "rollback" /\ isBuildKey(last'.key)
            /\ last'.key \notin Keys(Ledger.builds)) =>
        /\ last'.status = 404
        /\ last'.msg = "release doesn't exist"
        /\ prod' = prod]_vars

\* C7: Publish without a buildKey does what Publish of createBuildKey('master', v)
\* does, v the highest numeric version directory of master; when master provides
\* no build, what Publish of main's highest version does; when neither provides
\* a build it fails with 400 and changes nothing.  For every combination of
\* master and main being absent, empty or populated.
C7_DefaultKeyIsLatestMasterElseMain ==
    [][(last'.op = "publish" /\ last'.key = <<>>) =>
        LET versions(env) == {parseInt(d) : d \in DOMAIN EnvDir(envs, env).dirs} \ {NaN}
            provides(env) == EnvDir(envs, env).exists /\ versions(env) # {}
            highest(env) == CHOOSE v \in versions(env) : \A o \in versions(env) : o <= v
            key == IF provides(MASTER) THEN createBuildKey(MASTER, ToStr(highest(MASTER)))
                   ELSE IF provides(MAIN) THEN createBuildKey(MAIN, ToStr(highest(MAIN)))
                   ELSE <<>>
            named == publishHandler(envs, prod, WEB, key, clock')
        IN IF key = <<>>
           THEN /\ last'.status = 400
                /\ last'.msg = "build doesn't exist"
                /\ prod' = prod
           ELSE /\ last'.status = named.status
                /\ last'.msg = named.msg
                /\ last'.rel = named.rel
                /\ prod' = named.prod]_vars

\* C6 as stated: every rejected Publish changes nothing; a key failing
\* isBuildKey gives 400, a key whose source directory <env>/<version>/ is
\* missing or lacks build_info.json or index.html gives 404; no platform
\* directory, no <platform>_temp and no releases.json is created or modified.
C6_RejectedPublishChangesNothing ==
    [][(last'.op = "publish" /\ last'.key # <<>>) =>
        LET key == last'.key
            src == BuildDir(envs, parseBuildKey(key).env, ToStr(parseBuildKey(key).version))
            incomplete == \/ ~src.exists
                          \/ ~HasFile(src, BUILD_INFO)
                          \/ ~HasFile(src, INDEX_HTML)
        IN /\ ~isBuildKey(key) => last'.status = 400 /\ last'.msg = "invalid build key"
           /\ (isBuildKey(key) /\ incomplete) => last'.status = 404
           /\ last'.status # 200 => /\ prod' = prod
                                    /\ last'.writes = {}
                                    /\ last'.status \in {400, 404}]_vars

\* C6 amended: as above, but a key that is an entry of builds is rejected with
\* 400 AlreadyReleased whatever has become of its source directory; 404 is the
\* answer for a well-formed key that is not in builds and whose source
\* directory is missing or incomplete.
C6_RejectedPublishOfUnlistedKey ==
    [][(last'.op = "publish" /\ last'.key # <<>>) =>
        LET key == last'.key
            src == BuildDir(envs, parseBuildKey(key).env, ToStr(parseBuildKey(key).version))
            incomplete == \/ ~src.exists
                          \/ ~HasFile(src, BUILD_INFO)
                          \/ ~HasFile(src, INDEX_HTML)
        IN /\ ~isBuildKey(key) => last'.status = 400 /\ last'.msg = "invalid build key"
           /\ (isBuildKey(key) /\ incomplete /\ key \notin Keys(Ledger.builds)) =>
                 last'.status = 404
           /\ (isBuildKey(key) /\ key \in Keys(Ledger.builds)) =>
                 last'.status = 400 /\ last'.msg = "was already released"
           /\ last'.status # 200 => /\ prod' = prod
                                    /\ last'.writes = {}
                                    /\ last'.status \in {400, 404}]_vars

\* a Publish refused for its incomplete source, next to a platform that has a
\* release whose source directory retention has removed
C6_Witness ==
    /\ last.op = "publish"
    /\ last.status = 404
    /\ last.msg = "build doesn't have index.html"
    /\ Ledger.current = MasterKey(1)
    /\ ~BuildDir(envs, MASTER, ToStr(1)).exists
    /\ ~prod[TempName(WEB)].exists

\* C11: Rollback without a buildKey targets the entry that follows the current
\* release in builds ordered newest first by releasedAt (the next-older
\* release), also after earlier rollbacks and later publishes; it fails with
\* 400 NoPreviousBuild and changes nothing when there is no ledger, when current
\* is not in builds, or when current is the oldest release.
C11_DefaultRollbackTargetsNextOlder ==
    [][(last'.op = "rollback" /\ last'.key = <<>>) =>
        LET builds == Ledger.builds
            i == FindIndex(builds, Ledger.current)
        IN /\ \A j \in 1..(Len(builds) - 1) :
                 builds[j].releasedAt >= builds[j + 1].releasedAt
           /\ IF ~HasLedger(prod[WEB]) \/ i = 0 \/ i = Len(builds)
              THEN /\ last'.status = 400
                   /\ last'.msg = "there are no previous releases"
                   /\ last'.writes = {}
                   /\ prod' = prod
              ELSE /\ last'.status = 200
                   /\ last'.rel = builds[i + 1].key
                   /\ Ledger'.current = builds[i + 1].key
                   /\ Ledger'.builds = builds
                   /\ PointsTo(prod'[WEB], IndexName(builds[i + 1].key))]_vars

\* a default rollback from a release that an earlier rollback had made current
C11_Witness ==
    /\ RollbackOk
    /\ last.key = <<>>
    /\ Len(Ledger.builds) >= 3
    /\ Ledger.current = Ledger.builds[3].key
    /\ Ledger.builds[1].key \in published

\* the current release is the oldest: the default rollback is refused
C11_WitnessOldest ==
    /\ last.op = "rollback"
    /\ last.key = <<>>
    /\ last.status = 400
    /\ Len(Ledger.builds) >= 2
    /\ Ledger.current = Ledger.builds[Len(Ledger.builds)].key

\* C12 as stated: after N builds were published in a row to an empty platform,
\* the first default Rollback moves current to the build published before the
\* last one, N-1 default Rollbacks in a row succeed and end at the oldest of
\* the N, and the N-th fails with NoPreviousBuild.  Step by step: a default
\* Rollback whose current is the j-th published build moves to the (j-1)-th
\* when j > 1 and fails when j = 1.
C12_RollbacksWalkWholeHistory ==
    [][(last'.op = "rollback" /\ last'.key = <<>>) =>
        LET j == parseBuildKey(Ledger.current).version
        IN IF j > 1
           THEN last'.status = 200 /\ Ledger'.current = MasterKey(j - 1)
           ELSE /\ last'.status = 400
                /\ last'.msg = "there are no previous releases"
                /\ Ledger' = Ledger]_vars

\* C12 amended: the walk ends at the oldest release the ledger retains.  After
\* N builds published in a row, a default Rollback whose current is the j-th
\* published build moves to the (j-1)-th when that one is among the
\* buildsNumToKeep newest of the N, and fails with NoPreviousBuild otherwise:
\* min(N, buildsNumToKeep) - 1 rollbacks succeed, the next one fails.
C12_RollbacksWalkRetainedHistory ==
    [][(last'.op = "rollback" /\ last'.key = <<>>) =>
        LET j == parseBuildKey(Ledger.current).version
            N == Cardinality(published)
        IN IF j > 1 /\ j - 1 > N - buildsNumToKeep
           THEN last'.status = 200 /\ Ledger'.current = MasterKey(j - 1)
           ELSE /\ last'.status = 400
                /\ last'.msg = "there are no previous releases"
                /\ Ledger' = Ledger]_vars

\* the rollback after the last successful one: current is the first build
\* published, of as many as the ledger keeps
C12_Witness ==
    /\ last.op = "rollback"
    /\ last.status = 400
    /\ Cardinality(published) = buildsNumToKeep
    /\ Ledger.current = MasterKey(1)

\* C13: Rollback is reversible.  In every state, with A the current release:
\* if Rollback(B) succeeds, then Rollback(A) issued next succeeds and leaves
\* the ledger (current = A, the same builds), the index.html target
\* (index_A.html) and the rest of the platform directory exactly as they were
\* before the first rollback.
C13_RollbackIsReversible ==
    \A B \in BuildKeyParams(envs) \cup Keys(Ledger.builds) :
        LET A == Ledger.current
            there == rollbackHandler(prod, WEB, B)
            back == rollbackHandler(there.prod, WEB, A)
        IN there.status = 200 =>
              /\ loadReleases(there.prod[WEB]).current # A
              /\ back.status = 200
              /\ back.rel = A
              /\ loadReleases(back.prod[WEB]) = Ledger
              /\ PointsTo(back.prod[WEB], IndexName(A))
              /\ back.prod = prod

\* a rollback that returned to the newest release, which an earlier rollback
\* had left, with a third release in the ledger
C13_Witness ==
    /\ RollbackOk
    /\ last.key # <<>>
    /\ Len(Ledger.builds) >= 3
    /\ Ledger.current = Ledger.builds[1].key
    /\ PointsTo(Platform, IndexName(last.key))

C15_PruneKeepsNewest ==
    [][/\ HasLedger(Platform) =>
            \A k \in 1..buildsNumToKeep :
                LET out == removeOldReleases(Platform, k)
                    old == Ledger.builds
                    new == loadReleases(out.dir).builds
                    removed == SeqToSet(old) \ SeqToSet(new)
                IN /\ ~out.throws
                   /\ Len(new) = Min(k, Len(old))
                   /\ SeqToSet(new) \subseteq SeqToSet(old)
                   /\ \A n \in SeqToSet(new), r \in removed : n.releasedAt >= r.releasedAt
                   /\ \A r \in removed : /\ ~HasFile(out.dir, r.index)
                                         /\ ~HasFile(out.dir, r.files)
                   /\ \A n \in SeqToSet(new) :
                         \A f \in SeqToSet(Platform.files[n.files].list) :
                             /\ HasFile(out.dir, f)
                             /\ out.dir.files[f] = Platform.files[f]
                   /\ HasFile(out.dir, INDEX_HTML)
                   /\ out.dir.files[INDEX_HTML] = Platform.files[INDEX_HTML]
                   /\ HasFile(out.dir, RELEASES_JSON)
                   /\ loadReleases(out.dir).current = Ledger.current
       /\ (PublishOk' /\ Len(Ledger.builds) = buildsNumToKeep) =>
            LET r == Ledger.builds[buildsNumToKeep]
            IN /\ Len(Ledger'.builds) = buildsNumToKeep
               /\ r \notin SeqToSet(Ledger'.builds)
               /\ \A n \in SeqToSet(Ledger'.builds) : n.releasedAt >= r.releasedAt
               /\ ~HasFile(prod'[WEB], r.index)
               /\ ~HasFile(prod'[WEB], r.files)
               /\ \A n \in SeqToSet(Ledger'.builds) :
                     \A f \in SeqToSet(prod'[WEB].files[n.files].list) :
                         HasFile(prod'[WEB], f)
               /\ Ledger'.current = last'.rel]_vars

\* a Publish has pruned: the files of the releases it removed are gone
C15_Witness ==
    /\ PublishOk
    /\ published \ Keys(Ledger.builds) # {}
    /\ \A key \in published \ Keys(Ledger.builds) :
          /\ ~HasFile(Platform, IndexName(key))
          /\ ~HasFile(Platform, FilesName(key))
    /\ HasFile(Platform, <<"main.js">>)

\* C16: PrepareBuild(v) for a version that exists as a non-empty directory of
\* the environment fails with 400 DuplicateVersion, reports newBuildVersion =
\* (highest non-empty version) + 1 and creates or modifies no build directory.
C16_DuplicateVersionRejected ==
    [][(last'.op = "preDeploy") =>
        LET dirs == EnvDir(envs, last'.platform).dirs
            nonEmpty == {parseInt(d) : d \in {d \in DOMAIN dirs : dirs[d] # NoFiles}} \ {NaN}
        IN (parseInt(last'.key) > 0 /\ parseInt(last'.key) \in nonEmpty) =>
              /\ last'.status = 400
              /\ last'.msg = "version already exists"
              /\ \A o \in nonEmpty : o < last'.newBuildVersion
              /\ last'.newBuildVersion - 1 \in nonEmpty
              /\ EnvDir(envs', last'.platform).dirs = dirs]_vars

\* C17: a successful PrepareBuild(v) creates <env>/<v>/ with the contents of
\* the highest-numbered non-empty build directory (empty when there is none),
\* leaves every other build directory and the latest symlink unchanged, and
\* returns the non-empty versions in ascending order; an empty directory is
\* neither a collision nor the clone source.
C17_PrepareBuildClonesHighest ==
    [][(last'.op = "preDeploy" /\ last'.status = 200) =>
        LET env == last'.platform
            dirs == EnvDir(envs, env).dirs
            new == EnvDir(envs', env).dirs
            v == ToStr(parseInt(last'.key))
            nonEmpty == {parseInt(d) : d \in {d \in DOMAIN dirs : dirs[d] # NoFiles}} \ {NaN}
            builds == last'.builds
        IN /\ parseInt(last'.key) > 0
           /\ parseInt(last'.key) \notin nonEmpty
           /\ DOMAIN new = (DOMAIN dirs) \cup {v}
           /\ \A d \in (DOMAIN dirs) \ {v} : new[d] = dirs[d]
           /\ IF nonEmpty = {} THEN new[v] = NoFiles
              ELSE \E h \in nonEmpty : /\ \A o \in nonEmpty : o <= h
                                       /\ new[v] = dirs[ToStr(h)]
           /\ EnvDir(envs', env).latest = EnvDir(envs, env).latest
           /\ {builds[i] : i \in 1..Len(builds)} = nonEmpty
           /\ \A i \in 1..(Len(builds) - 1) : builds[i] < builds[i + 1]
           /\ last'.newBuildVersion = parseInt(last'.key)]_vars

\* a build cloned from a lower version while a higher, empty directory exists
C17_Witness ==
    /\ last.op = "preDeploy"
    /\ last.status = 200
    /\ last.builds # <<>>
    /\ \E d \in DOMAIN EnvDir(envs, MASTER).dirs :
          /\ EnvDir(envs, MASTER).dirs[d] = NoFiles
          /\ parseInt(d) > last.builds[Len(last.builds)]
    /\ EnvDir(envs, MASTER).dirs[ToStr(last.newBuildVersion)] # NoFiles

\* C19: the latest symlink targets the build directory of the most recent
\* successful FinalizeDeployment and CurrentDeployment reports that version;
\* there is none before the first finalize, and no other request moves it.
C19_LatestIsLastFinalized ==
    [][/\ (finalized = {} /\ last.op = "none") =>
             /\ EnvDir(envs, MASTER).latest = <<>>
             /\ currentDeployment(envs, MASTER).status = 404
       /\ IF last'.op = "postDeploy" /\ last'.status = 200
          THEN /\ EnvDir(envs', last'.platform).latest = last'.key
               /\ currentDeployment(envs', last'.platform).status = 200
               /\ currentDeployment(envs', last'.platform).version = parseInt(last'.key)
          ELSE /\ EnvDir(envs', MASTER).latest = EnvDir(envs, MASTER).latest
               /\ currentDeployment(envs', MASTER).version
                     = currentDeployment(envs, MASTER).version]_vars

\* C20: the retention run at the end of FinalizeDeployment(v) never deletes
\* build directory v: whatever versions were prepared and finalized, in any
\* order, the directory that latest points to exists.
C20_LatestTargetExists ==
    \A e \in DOMAIN envs :
        envs[e].latest # <<>> => BuildDir(envs, e, envs[e].latest).exists

C21_RetentionKeepsHighest ==
    [][(last'.op = "postDeploy" /\ last'.status = 200) =>
        LET before == EnvDir(envs, last'.platform)
            after == EnvDir(envs', last'.platform)
            all == {parseInt(d) : d \in DOMAIN before.dirs}
            left == {parseInt(d) : d \in DOMAIN after.dirs}
        IN /\ after.exists
           /\ DOMAIN after.dirs \subseteq DOMAIN before.dirs
           /\ Cardinality(DOMAIN after.dirs) = Cardinality(left)
           /\ Cardinality(left) = Min(deploymentsNumToKeep, Cardinality(all))
           /\ \A k \in left : \A o \in all \ left : o < k
           /\ \A d \in DOMAIN after.dirs : after.dirs[d] = before.dirs[d]
           /\ after.latest = last'.key
           /\ \A e \in (DOMAIN envs) \ {last'.platform} : envs'[e] = envs[e]]_vars

\* a finalize with twelve build directories: the two lowest versions are gone
C21_Witness ==
    /\ last.op = "postDeploy"
    /\ last.status = 200
    /\ last.key = ToStr(deploymentsNumToKeep + 2)
    /\ ~BuildDir(envs, MASTER, ToStr(1)).exists
    /\ ~BuildDir(envs, MASTER, ToStr(2)).exists
    /\ BuildDir(envs, MASTER, ToStr(3)).exists
    /\ Cardinality(DOMAIN EnvDir(envs, MASTER).dirs) = deploymentsNumToKeep

\* C22: ListReleases never fails: it answers {current: null, builds: []} when
\* the platform directory or releases.json is absent and otherwise exactly the
\* stored document, which is the ledger the last Publish or Rollback wrote.
C22_ListReleasesReturnsStoredLedger ==
    [][(last'.op = "releases") =>
        LET dir == prod[last'.platform]
            stored == dir.files[RELEASES_JSON].releases
        IN /\ last'.status = 200
           /\ IF ~dir.exists \/ RELEASES_JSON \notin DOMAIN dir.files
              THEN last'.rel = <<>> /\ last'.builds = <<>>
              ELSE last'.rel = stored.current /\ last'.builds = stored.builds
           /\ (PublishOk \/ RollbackOk) =>
                 /\ last'.rel = last.rel
                 /\ last.rel \in Keys(last'.builds)
           /\ PublishOk => last'.builds[1].key = last.rel
           /\ prod' = prod]_vars

\* the releases listed after two were published and one rolled back to
C22_Witness ==
    /\ last.op = "releases"
    /\ last.status = 200
    /\ Len(last.builds) = 2
    /\ last.rel = last.builds[2].key

\* the listing of a platform directory that holds no releases.json
C22_WitnessNoLedger ==
    /\ last.op = "releases"
    /\ last.status = 200
    /\ Platform.exists
    /\ ~HasLedger(Platform)
    /\ last.builds = <<>>

\* C23: for every string s that isBuildKey accepts (environments with '-' or
\* '_' and versions with leading zeros included),
\* createBuildKey(parseBuildKey(s).env, parseBuildKey(s).version) = s and
\* parseBuildKey(s).version is an integer.
C23_BuildKeyRoundTrips ==
    [][(last'.op = "roundTrip") =>
          /\ last'.rel = last.key
          /\ last'.newBuildVersion # NaN]_vars

\* C24: no half-published release is ever recorded: at every intermediate
\* step of Publish (a crash there included) releases.json changes only once
\* the release's files are completely copied into the platform directory, and
\* every release listed in releases.json has its index_<key>.html and
\* files_<key>.json in the platform directory.
C24_NoHalfPublishedRelease ==
    /\ [][Ledger' # Ledger =>
            \E r \in 1..MaxHandlers :
                LET key == handlers[r].key
                    built == (DOMAIN SrcDir(handlers[r]).files) \ {BUILD_INFO, INDEX_HTML}
                IN /\ running = r
                   /\ prod[TempName(WEB)] = NoDir
                   /\ HasFile(Platform, IndexName(key))
                   /\ HasFile(Platform, FilesName(key))
                   /\ \A f \in built : /\ HasFile(Platform, f)
                                       /\ Platform.files[f] = SrcDir(handlers[r]).files[f]]_vars
    /\ [](\A i \in 1..Len(Ledger.builds) :
             /\ HasFile(Platform, IndexName(Ledger.builds[i].key))
             /\ HasFile(Platform, FilesName(Ledger.builds[i].key)))

\* C25: without locking, two Publish calls for the same platform with
\* different keys, interleaved at the await of the pruning step, produce a
\* lost update: when a handler goes on after its await and writes the pruned
\* releases.json, a release that the other handler recorded meanwhile is no
\* longer in releases.json (last writer wins).
C25_LastWriterWins ==
    [][\A r, o \in 1..MaxHandlers :
          (/\ r # o
           /\ At(r, "outputPruned")
           /\ handlers'[r].pc # "outputPruned"
           /\ handlers[o].recorded
           /\ handlers[r].key \in Keys(handlers[o].releases.builds)
           /\ handlers[o].key \in Keys(Ledger.builds)) =>
              /\ handlers[o].key \notin Keys(Ledger'.builds)
              /\ handlers[r].key \in Keys(Ledger'.builds)
              /\ Ledger'.current = handlers[r].key]_vars

\* both calls are over, one answered 200, and the release the other had
\* recorded is not in releases.json
C25_Witness ==
    /\ running = 0
    /\ \A r \in 1..MaxHandlers : handlers[r].pc = "done"
    /\ \E r, o \in 1..MaxHandlers :
          /\ handlers[r].status = 200
          /\ handlers[o].recorded
          /\ handlers[o].key \notin Keys(Ledger.builds)
          /\ handlers[r].key \in Keys(Ledger.builds)

\* C26: in every state between sequential Publish and Rollback calls the
\* platform directory holds index_<key>.html and files_<key>.json of every
\* release retained in builds, and releases.json itself.
C26_RetainedReleasesHaveFiles ==
    /\ \A i \in 1..Len(Ledger.builds) :
          /\ HasFile(Platform, IndexName(Ledger.builds[i].key))
          /\ HasFile(Platform, FilesName(Ledger.builds[i].key))
          /\ Platform.files[FilesName(Ledger.builds[i].key)].t = "manifest"
    /\ published # {} => HasFile(Platform, RELEASES_JSON)

\* a Publish has pruned and a Rollback followed: five releases, all with files
C26_Witness ==
    /\ RollbackOk
    /\ Len(Ledger.builds) = buildsNumToKeep
    /\ published \ Keys(Ledger.builds) # {}
    /\ \A i \in 1..Len(Ledger.builds) :
          HasFile(Platform, IndexName(Ledger.builds[i].key))

\* C27: in every state between sequential Publish and Rollback calls with a
\* non-empty ledger, index.html of the platform directory points to
\* index_<current>.html, current being the ledger's current key, and that
\* file exists.
C27_IndexPointsToCurrent ==
    Ledger.builds # <<>> =>
        /\ HasFile(Platform, INDEX_HTML)
        /\ Platform.files[INDEX_HTML] = Symlink(<<"./", "index_">> \o Ledger.current \o <<".html">>)
        /\ HasFile(Platform, <<"index_">> \o Ledger.current \o <<".html">>)

\* after a rollback to a release that is not the newest one
C27_Witness ==
    /\ RollbackOk
    /\ Len(Ledger.builds) >= 2
    /\ Ledger.current = last.rel
    /\ Ledger.current # Ledger.builds[1].key
    /\ PointsTo(Platform, IndexName(Ledger.current))

\* C28: Publish only promotes a deployment: a build directory that
\* PrepareBuild created but that no FinalizeDeployment has accepted is never
\* published, whether the key is given or chosen as the latest build.
C28_PublishOnlyPromotesDeployments ==
    [][PublishOk' =>
          <<parseBuildKey(last'.rel).env, ToStr(parseBuildKey(last'.rel).version)>>
              \in finalized]_vars

\* C29: in every state between Publish and Rollback calls, starting from an
\* empty platform, the ledger holds at most 5 releases: every Publish ends
\* with pruning at the fixed keep-count 5.
C29_LedgerHoldsAtMostFive ==
    /\ Len(Ledger.builds) <= 5
    /\ Len(Ledger.builds) = IF Cardinality(published) < 5 THEN Cardinality(published) ELSE 5

\* more than five keys were published, a rollback followed: five are listed
C29_Witness ==
    /\ Cardinality(published) > 5
    /\ Len(Ledger.builds) = 5
    /\ RollbackOk

\* C30: in every reachable ledger state the keys of builds are pairwise
\* distinct, for any sequence of Publish, Rollback and pruning, a key
\* published again after it was pruned included.
C30_ReleaseKeysAreDistinct ==
    \A i, j \in 1..Len(Ledger.builds) :
        Ledger.builds[i].key = Ledger.builds[j].key => i = j

\* master-1 was pruned and then published again
C30_Witness ==
    /\ PublishOk
    /\ last.rel = MasterKey(1)
    /\ Cardinality(published) > buildsNumToKeep
    /\ MasterKey(1) \in Keys(Ledger.builds)
    /\ Len(Ledger.builds) = buildsNumToKeep

\* C31: between sequential Publish and Rollback calls (the release clock never
\* goes back, releasedAt has one-second precision, so ties occur) the stored
\* builds are ordered newest first by releasedAt, among equal dates the one
\* published later first; Rollback never changes the stored order: the sort
\* that picks the default rollback target is not written back.
C31_StoredOrderNewestFirst ==
    /\ [](\A i, j \in 1..Len(Ledger.builds) :
             i < j => Ledger.builds[i].releasedAt >= Ledger.builds[j].releasedAt)
    /\ [][/\ PublishOk' =>
               /\ Ledger'.builds[1].key = last'.rel
               /\ \A i \in 2..Len(Ledger'.builds) : Ledger'.builds[i] = Ledger.builds[i - 1]
          /\ (last'.op = "rollback") =>
               /\ Ledger'.builds = Ledger.builds
               /\ HasLedger(Platform) => HasLedger(prod'[WEB])]_vars

\* a rollback without a key over releases of the same second and of different seconds
C31_Witness ==
    /\ RollbackOk
    /\ last.key = <<>>
    /\ \E i \in 1..(Len(Ledger.builds) - 1) :
          Ledger.builds[i].releasedAt = Ledger.builds[i + 1].releasedAt
    /\ \E i \in 1..(Len(Ledger.builds) - 1) :
          Ledger.builds[i].releasedAt > Ledger.builds[i + 1].releasedAt
    /\ Ledger.current # Ledger.builds[1].key

\* C32: Publish and Rollback for platform P touch only P's release directory
\* and P's temporary directory: for every other platform name Q, the one
\* named P followed by "_temp" included, Q's releases.json, release files and
\* index.html are unchanged by the operation.
C32_OtherPlatformsUntouched ==
    [][(last'.op \in {"publish", "rollback"}) =>
          \A q \in PlatformNames \ {last'.platform} : prod'[q] = prod[q]]_vars

\* C33: when an earlier Publish crashed and left prod/<platform>_temp behind,
\* a later Publish of key K overwrites it: files_K.json lists only files of
\* K's source build, index_K.html and files_K.json, nothing of the orphaned
\* directory, and the temporary directory is gone after the successful Publish.
C33_OrphanedTempIsOverwritten ==
    [][\A r \in 1..MaxHandlers :
          (handlers[r].pc = "symlinkSync" /\ handlers'[r].pc = "done"
              /\ handlers'[r].status = 200) =>
             LET key == handlers[r].key
                 own == ((DOMAIN SrcDir(handlers[r]).files) \ {BUILD_INFO, INDEX_HTML})
                            \cup {IndexName(key), FilesName(key)}
             IN /\ ~prod'[TempName(WEB)].exists
                /\ HasFile(prod'[WEB], FilesName(key))
                /\ SeqToSet(prod'[WEB].files[FilesName(key)].list) \subseteq own]_vars

\* C34: files_<key>.json written by Publish lists, relative to the platform
\* directory, exactly the files this Publish adds for the release:
\* files_<key>.json itself, index_<key>.html and every other file of the source
\* build except build_info.json and index.html; each path appears once.
C34_ManifestListsTheRelease ==
    [][PublishOk' =>
        LET key == last'.rel
            src == BuildDir(envs, parseBuildKey(key).env, ToStr(parseBuildKey(key).version))
            list == prod'[WEB].files[FilesName(key)].list
        IN /\ SeqToSet(list) = ((DOMAIN src.files) \ {BUILD_INFO, INDEX_HTML})
                                   \cup {IndexName(key), FilesName(key)}
           /\ Len(list) = Cardinality(SeqToSet(list))
           /\ \A f \in SeqToSet(list) : HasFile(prod'[WEB], f)]_vars

\* C35: pruning inside Publish never deletes the index_<key>.html that
\* index.html points to while it points there: whenever index.html exists it
\* resolves to an existing file, also when the release that was current before
\* the Publish is the oldest one and is pruned.
C35_IndexNeverDangles ==
    (HasFile(prod[WEB], INDEX_HTML) /\ prod[WEB].files[INDEX_HTML].t = "symlink") =>
        \E f \in DOMAIN prod[WEB].files :
            /\ f # INDEX_HTML
            /\ prod[WEB].files[INDEX_HTML].target = <<"./">> \o f

\* C36: when Publish or Rollback is interrupted by a crash after any of its
\* steps, the current key of releases.json and the target of index.html still
\* designate the same release.
C36_CrashLeavesLedgerAndIndexAgreeing ==
    [][(\E r \in 1..MaxHandlers : InFlight(r) /\ handlers'[r].pc = "crashed") =>
          (HasLedger(prod'[WEB]) =>
              PointsTo(prod'[WEB], IndexName(ReadLedger(prod'[WEB]).current)))]_vars

\* C37: for every environment name of [a-zA-Z0-9_-]+, also one with a dash,
\* and every version v whose build directory holds build_info.json and
\* index.html, Publish with the key createBuildKey(env, v) that was not
\* released before succeeds and takes its files from <game>/<env>/<v>/.
C37_PublishTakesTheBuildOfTheKey ==
    [][\A e \in DOMAIN envs, v \in 1..MaxLatest :
          LET key == createBuildKey(e, ToStr(v))
              src == BuildDir(envs, e, ToStr(v))
          IN (/\ last'.op = "publish"
              /\ last'.key = key
              /\ HasFile(src, BUILD_INFO)
              /\ HasFile(src, INDEX_HTML)
              /\ key \notin Keys(Ledger.builds)) =>
                 /\ last'.status = 200
                 /\ HasFile(prod'[WEB], IndexName(key))
                 /\ prod'[WEB].files[IndexName(key)] = src.files[INDEX_HTML]]_vars

\* C38: within one environment PrepareBuild cannot succeed twice for the same
\* version: in the state a successful preDeploy of v leaves, before anything
\* is uploaded, a further preDeploy of v is refused with 400 (version already
\* exists), also when v is the first build of the environment.
C38_PrepareBuildRefusesDuplicate ==
    (last.op = "preDeploy" /\ last.status = 200) =>
        LET again == preDeployHandler(envs, last.platform, last.key, clock)
        IN /\ again.status = 400
           /\ again.msg = "version already exists"

\* C39: after any interleaving of concurrent Publish and Rollback calls on one
\* platform has run to completion, index.html points to index_<current>.html
\* for the current key of releases.json, that file exists, and current is the
\* key of an entry of builds.
C39_QuiescentPlatformIsConsistent ==
    (/\ \A r \in 1..MaxHandlers : ~InFlight(r)
     /\ HasLedger(prod[WEB])) =>
        LET releases == ReadLedger(prod[WEB])
        IN /\ PointsTo(prod[WEB], IndexName(releases.current))
           /\ HasFile(prod[WEB], IndexName(releases.current))
           /\ releases.current \in Keys(releases.builds)

====
